---- MODULE Spec2Model ----
(***************************************************************************)
(* Codestrates v2: the Fragment base class (change notification engine),   *)
(* its registry of fragment types and the load scheduler.                  *)
(*                                                                         *)
(* SpecFragment models ONE fragment wrapper and the subtree it observes:   *)
(* the raw accessor, the MutationObserver queue, mutationCallback with its *)
(* diff walk, stopObserver/startObserver and executeObserverless.          *)
(* SpecDiff is the same fragment restricted to text writes and deliveries, *)
(* over longer strings, for the diff walk of mutationCallback.             *)
(* SpecRegistry models the static side of Fragment: setupFragment, the     *)
(* type registry, the unknown sets, the document observer and the load     *)
(* passes of runFragmentsLoaded.                                           *)
(* SpecHandlers models the six callback arrays of a fragment, the          *)
(* disposers of its register...Handler operations and unload().            *)
(* SpecEditors models EditorManager: registerEditor, unregisterEditor and  *)
(* createEditor.                                                           *)
(* SpecAutoDom models one fragment of a type with auto-DOM: its observer,  *)
(* insertAutoDom / clearAutoDom and the companion node.                    *)
(* SpecTextNode models getTextContentNode of HtmlFragment and of           *)
(* DescriptorFragment: the writes they make to the subtree of the root.    *)
(* SpecMarker models mutationCallback with text handlers that may throw.   *)
(* SpecUnload models unload() of a fragment whose observer has a queue.    *)
(* SpecEditorSync models the editors bound to one fragment: their change   *)
(* handlers, handleModelChanged and the timers that re-enable it.          *)
(* SpecScss models SCSSFragment.require() with and without AutoDOMCache,   *)
(* and a load pass that awaits it.                                         *)
(***************************************************************************)
EXTENDS Integers, Sequences, FiniteSets, TLC

\* ------------------------------------------------------------------ bounds
MaxLen == 2
MaxRawLen == 1
MaxRecords == 2

Chars == {"a", "b"}
Strings(n) == UNION {[1..k -> Chars] : k \in 0..n}
Contents == Strings(MaxLen)
RawContents == Strings(MaxRawLen)

\* ------------------------------------------------------- state, one fragment
VARIABLES
    hasText,            \* html[0].firstChild instanceof Text
    nodeValue,          \* nodeValue of that text node (<<>> when absent)
    extraChild,         \* a further (empty) child element after the text node
    auto,               \* html[0].hasAttribute("auto")
    attached,           \* html[0].parentNode != null
    observing,          \* the MutationObserver is connected to html[0]
    records,            \* the observer's queue of undelivered records
    characterDataAlreadyHandled, \* the marker mutationCallback leaves on the text node
    fragmentChangedCallbacks,    \* registered changed handlers, in order
    replica,            \* a subscriber replaying text-inserted/-deleted callbacks
    unobservedWrite,    \* history: some write happened while disconnected
    last                \* history: what the last operation delivered

fragVars == <<hasText, nodeValue, extraChild, auto, attached, observing, records,
              characterDataAlreadyHandled, fragmentChangedCallbacks, replica,
              unobservedWrite, last>>

\* ------------------------------------- state, the statics of class Fragment
VARIABLES
    inDocument,         \* the code-fragment nodes that are in the document
    fragmentTypes,      \* Fragment.fragmentTypes: the registered type ids
    unknownFragments,   \* Fragment.unknownFragments: type id -> set of nodes
    data,               \* node -> html.data("Fragment"): wrapper id, 0 for null
    fragments,          \* every Fragment constructed so far, by wrapper id
    allInstalledRun,    \* Fragment.allInstalledRun
    currentlyLoadingFragments, \* Fragment.currentlyLoadingFragments
    docRecords,         \* queue of the document-wide MutationObserver
    passes,             \* the calls of runFragmentsLoaded that are suspended
    alreadySetUp,       \* history: the last operation called setupFragment on a wrapped node
    fragmentClasses,    \* Fragment.fragmentTypes: type id -> the class registered for it
    settledPromotion,   \* history: wrappers promoted by a registration whose pass settled in the last step
    duplicateRegistration, \* history: the last operation registered a type id that was registered
    hookAwaits,         \* pass -> the pass whose promise its running hook awaits, 0 for none
    observerThrew       \* history: the last delivery of the document observer threw

regVars == <<inDocument, fragmentTypes, unknownFragments, data, fragments, allInstalledRun,
             currentlyLoadingFragments, docRecords, passes, alreadySetUp,
             fragmentClasses, settledPromotion, duplicateRegistration, hookAwaits,
             observerThrew>>

\* ------------------------ state, the callback lists and the life of a fragment
VARIABLES
    callbacks,          \* kind -> the callback array of that kind, in order
    html,               \* this.html: "node", or "null" once unload() has run
    disposers,          \* the disposer objects handed out so far: <<kind, callback>>
    called,             \* history: the last operation, what it invoked, whether it threw
    subscribed          \* history: kind -> the callbacks registered and not disposed of, in order

hdlVars == <<callbacks, html, disposers, called, subscribed>>

\* ------------------------------------------------- state, the EditorManager
VARIABLES
    editorTypes,        \* EditorManager.editorTypes: fragment type -> Set of editor classes, in insertion order
    lastCreate,         \* history: the last createEditor call and the list it returned
    boundEditors,       \* the editors bound to the fragment: value, handleModelChanges, timers
    lastEdit            \* history: the last step of the editors and whether it wrote the fragment

edVars == <<editorTypes, lastCreate, boundEditors, lastEdit>>

\* ------------------------------------- state, the auto-DOM of one fragment
VARIABLES
    autoDomDirty,       \* this.autoDomDirty
    transient,          \* the companion <transient class="autoDom" id=uuid>: present, which node, content
    pendingAutoDom,     \* the recomputations whose require() has not settled: the raw each one read
    autoLast,           \* history: the last operation and the recomputations it started
    parentInDocument,   \* the parent of the root, when it has one, is in the document
    strayCompanions,    \* companions of the fragment outside the document
    classList           \* the classes of the root

autoVars == <<autoDomDirty, transient, pendingAutoDom, autoLast, parentInDocument,
              strayCompanions, classList>>

\* ------------------------------------------- state, the class of the fragment
VARIABLES
    dataType            \* the type() of the subclass whose getTextContentNode is studied

\* ------------------------------------------------ state, one SCSS fragment
VARIABLES
    scss                \* the fragment, its compiler, the cache and the require() promises

extVars == <<hdlVars, edVars, autoVars, dataType, scss>>

vars == <<fragVars, regVars, extVars>>

\* the callback lists while another part is studied
HdlIdle ==
    /\ callbacks = <<>>
    /\ html = "node"
    /\ disposers = {}
    /\ called = <<>>
    /\ subscribed = <<>>

\* the EditorManager while another part is studied
EdIdle ==
    /\ editorTypes = <<>>
    /\ lastCreate = <<>>
    /\ boundEditors = <<>>
    /\ lastEdit = <<>>

\* the auto-DOM while another part is studied
AutoIdle ==
    /\ autoDomDirty = TRUE
    /\ transient = <<>>
    /\ pendingAutoDom = <<>>
    /\ autoLast = <<>>
    /\ parentInDocument = TRUE
    /\ strayCompanions = 0
    /\ classList = {}

\* the base class accessors are the ones in use
TypeIdle == dataType = "none" /\ scss = <<>>

ExtIdle == HdlIdle /\ EdIdle /\ AutoIdle /\ TypeIdle

\* ------------------------------------------------------------ text helpers
Min(x, y) == IF x < y THEN x ELSE y

Take(s, n) == SubSeq(s, 1, Min(n, Len(s)))

Drop(s, n) == SubSeq(s, Min(n, Len(s)) + 1, Len(s))

RECURSIVE CommonPrefixLen(_, _)
CommonPrefixLen(a, b) ==
    IF a = <<>> \/ b = <<>> \/ Head(a) # Head(b) THEN 0
    ELSE 1 + CommonPrefixLen(Tail(a), Tail(b))

Reverse(s) == [i \in 1..Len(s) |-> s[Len(s) + 1 - i]]

CommonSuffixLen(a, b) == CommonPrefixLen(Reverse(a), Reverse(b))

\* ------------------------------------------------ diff_match_patch (library)
\* The library is not part of the repository.  Its result is modelled by its
\* contract: diff_main strips the common prefix and suffix into equalities and
\* returns, for the middle, SOME canonical edit script (blocks of at most one
\* delete followed by at most one insert, separated by non-empty equalities).
\* Every such script is a possible result.
EditBlock(a, b, i, j) ==
    (IF i > 0 THEN <<[type |-> "DIFF_DELETE", text |-> Take(a, i)]>> ELSE <<>>)
    \o (IF j > 0 THEN <<[type |-> "DIFF_INSERT", text |-> Take(b, j)]>> ELSE <<>>)

RECURSIVE EditScripts(_, _, _)
EditScripts(a, b, prev) ==
    IF a = <<>> /\ b = <<>> THEN {<<>>}
    ELSE IF prev = "equal"
    THEN UNION {
            {EditBlock(a, b, ij[1], ij[2]) \o s : s \in EditScripts(Drop(a, ij[1]), Drop(b, ij[2]), "edit")}
            : ij \in {p \in (0..Len(a)) \X (0..Len(b)) : p[1] + p[2] > 0} }
    ELSE UNION {
            {<<[type |-> "DIFF_EQUAL", text |-> Take(a, k)]>> \o s : s \in EditScripts(Drop(a, k), Drop(b, k), "equal")}
            : k \in 1..CommonPrefixLen(a, b) }

diff_main(a, b) ==
    IF a = b
    THEN {IF a = <<>> THEN <<>> ELSE <<[type |-> "DIFF_EQUAL", text |-> a]>>}
    ELSE LET p == CommonPrefixLen(a, b)
             a1 == Drop(a, p)
             b1 == Drop(b, p)
             q == CommonSuffixLen(a1, b1)
             am == Take(a1, Len(a1) - q)
             bm == Take(b1, Len(b1) - q)
             pre == IF p > 0 THEN <<[type |-> "DIFF_EQUAL", text |-> Take(a, p)]>> ELSE <<>>
             suf == IF q > 0 THEN <<[type |-> "DIFF_EQUAL", text |-> Drop(a1, Len(a1) - q)]>> ELSE <<>>
         IN  {pre \o mid \o suf : mid \in EditScripts(am, bm, "equal")}

\* patch_make: no patch when nothing changed; otherwise, for texts shorter than
\* the library's context margin, one patch whose context reaches the start of
\* the text (start1 = 0) and whose diffs are the whole diff.
patch_make(a, b) ==
    IF a = b THEN {<<>>}
    ELSE {<<[start1 |-> 0, diffs |-> d]>> : d \in diff_main(a, b)}

\* ------------------------------------------------ mutationCallback, the walk
AdvanceInsert_NoAdvance(offset, value) == offset

AdvanceInsert(offset, value) == offset + Len(value)

RECURSIVE WalkDiffs(_, _)
WalkDiffs(diffs, offset) ==
    IF diffs = <<>> THEN <<>>
    ELSE LET d == Head(diffs) IN
         CASE d.type = "DIFF_INSERT" ->
                <<[kind |-> "insert", pos |-> offset, val |-> d.text]>>
                \o WalkDiffs(Tail(diffs), AdvanceInsert(offset, d.text))
           [] d.type = "DIFF_DELETE" ->
                <<[kind |-> "delete", pos |-> offset, val |-> d.text]>>
                \o WalkDiffs(Tail(diffs), offset)
           [] OTHER -> WalkDiffs(Tail(diffs), offset + Len(d.text))

RECURSIVE WalkPatches(_)
WalkPatches(patches) ==
    IF patches = <<>> THEN <<>>
    ELSE WalkDiffs(Head(patches).diffs, Head(patches).start1) \o WalkPatches(Tail(patches))

\* what a subscriber does with the callbacks (Editor.insertText/deleteText)
RECURSIVE ApplyOps(_, _)
ApplyOps(ops, s) ==
    IF ops = <<>> THEN s
    ELSE LET o == Head(ops) IN
         ApplyOps(Tail(ops),
                  IF o.kind = "insert"
                  THEN Take(s, o.pos) \o o.val \o Drop(s, o.pos)
                  ELSE Take(s, o.pos) \o Drop(s, o.pos + Len(o.val)))


\* -------------------------------------------------------- Fragment, accessors
\* get raw
Raw == IF hasText THEN nodeValue ELSE <<>>

Rec(type, attributeName, target, oldValue, scoped) ==
    [type |-> type, attributeName |-> attributeName, target |-> target,
     oldValue |-> oldValue, scoped |-> scoped]

\* set raw(content): the records the assignment queues on an observer in state obs.
\* firstChild.nodeValue = content queues a characterData record; textContent =
\* content on a fragment without text node inserts a new text node (childList),
\* and does nothing at all when content is empty.
SetterRecords(obs, content, scoped) ==
    IF ~obs THEN <<>>
    ELSE IF hasText THEN <<Rec("characterData", "", "text", nodeValue, scoped)>>
    ELSE IF content # <<>> THEN <<Rec("childList", "", "root", <<>>, scoped)>>
    ELSE <<>>

SetterHasText(content) == hasText \/ content # <<>>

\* ------------------------------------------------ triggerFragmentChanged
triggerFragmentChanged(context) ==
    [i \in 1..Len(fragmentChangedCallbacks) |->
        [handler |-> fragmentChangedCallbacks[i], context |-> context]]

\* ------------------------------------------------------- mutationCallback
\* one iteration of mutations.forEach; acc carries sendUpdateCallback, the
\* marker on the text node, whether the text node was pushed to
\* characterDataTargets, and the insert/delete callbacks made so far
SendAfterSuppressed_Keep(send) == send

SendAfterSuppressed(send) == FALSE

ProcessRecord(m, patches, acc) ==
    LET a1 == IF m.type = "attributes" THEN [acc EXCEPT !.send = TRUE] ELSE acc IN
    IF m.type = "attributes" /\ m.attributeName = "auto" /\ m.target = "root"
    THEN [a1 EXCEPT !.send = SendAfterSuppressed(a1.send), !.autoChanged = @ + 1]
    ELSE IF m.type = "attributes" /\ m.attributeName = "class" /\ m.target = "root"
    THEN [a1 EXCEPT !.send = SendAfterSuppressed(a1.send), !.classChanged = @ + 1]
    ELSE IF m.type = "characterData"
    THEN IF a1.handled THEN a1
         ELSE [a1 EXCEPT !.send = TRUE, !.handled = TRUE, !.pushed = TRUE,
                         !.ops = @ \o [i \in 1..Len(WalkPatches(patches)) |->
                                         [kind |-> WalkPatches(patches)[i].kind,
                                          pos |-> WalkPatches(patches)[i].pos,
                                          val |-> WalkPatches(patches)[i].val,
                                          scoped |-> m.scoped]]]
    ELSE IF m.type = "childList" THEN [a1 EXCEPT !.send = TRUE]
    ELSE a1

RECURSIVE ProcessRecords(_, _, _)
ProcessRecords(ms, patches, acc) ==
    IF ms = <<>> THEN acc
    ELSE ProcessRecords(Tail(ms), patches, ProcessRecord(Head(ms), patches, acc))

NoResult == [ops |-> <<>>, changed |-> <<>>, marker |-> characterDataAlreadyHandled,
             autoChanged |-> 0, classChanged |-> 0]

mutationCallback(mutations, patches) ==
    LET acc == ProcessRecords(mutations, patches,
                   [send |-> FALSE, handled |-> characterDataAlreadyHandled,
                    pushed |-> FALSE, ops |-> <<>>, autoChanged |-> 0, classChanged |-> 0])
    IN  [ops |-> acc.ops,
         changed |-> IF attached /\ acc.send THEN triggerFragmentChanged("fragment") ELSE <<>>,
         marker |-> IF acc.pushed THEN FALSE ELSE acc.handled,
         autoChanged |-> acc.autoChanged,
         classChanged |-> acc.classChanged]

\* the results dmp.patch_make can return for the one record of the batch that is
\* diffed (the first characterData record, unless the marker is already set)
CharIdx(mutations) == {i \in 1..Len(mutations) : mutations[i].type = "characterData"}

FirstChar(mutations) == CHOOSE i \in CharIdx(mutations) : \A j \in CharIdx(mutations) : i <= j

PatchesFor(mutations) ==
    IF characterDataAlreadyHandled \/ CharIdx(mutations) = {} THEN {<<>>}
    ELSE patch_make(mutations[FirstChar(mutations)].oldValue, nodeValue)

\* ------------------------------------------------ startObserver / stopObserver
disconnect_Missing(obs) == obs

disconnect(obs) == FALSE

observe(obs) == TRUE

\* the subscriber's copy after a batch; it is followed only as long as every
\* write so far was made while the observer was connected
Replay(ops, unobserved) == IF unobserved THEN <<>> ELSE ApplyOps(ops, replica)

\* ------------------------------------------------------------ history record
\* what the last operation delivered to the subscribers, and with which
\* arguments executeObserverless was called
Last(op, res, scopedChanged, threw, skip, ctx) ==
    [op |-> op, ops |-> res.ops, changed |-> res.changed,
     scopedChanged |-> scopedChanged, threw |-> threw, skip |-> skip, ctx |-> ctx]

Quiet == Last("edit", [ops |-> <<>>, changed |-> <<>>], <<>>, FALSE, FALSE, "none")

\* the statics while a single fragment is studied: nothing registered
RegIdle ==
    /\ inDocument = {}
    /\ fragmentTypes = {}
    /\ unknownFragments = <<>>
    /\ data = <<>>
    /\ fragments = <<>>
    /\ allInstalledRun = FALSE
    /\ currentlyLoadingFragments = FALSE
    /\ docRecords = <<>>
    /\ passes = <<>>
    /\ alreadySetUp = FALSE
    /\ fragmentClasses = <<>>
    /\ settledPromotion = {}
    /\ duplicateRegistration = FALSE
    /\ hookAwaits = <<>>
    /\ observerThrew = FALSE

\* ------------------------------------------------------------------ actions
InitFragment ==
    /\ hasText \in BOOLEAN
    /\ nodeValue \in (IF hasText THEN RawContents ELSE {<<>>})
    /\ extraChild = FALSE
    /\ auto \in BOOLEAN
    /\ attached \in BOOLEAN
    /\ observing = TRUE
    /\ records = <<>>
    /\ characterDataAlreadyHandled = FALSE
    /\ fragmentChangedCallbacks = <<"h1", "h2">>
    /\ replica = Raw
    /\ unobservedWrite = FALSE
    /\ last = Quiet
    /\ RegIdle
    /\ ExtIdle

\* fragment.raw = content, outside executeObserverless (a local or remote edit)
SetRaw(content) ==
    /\ Len(records) < MaxRecords
    /\ records' = records \o SetterRecords(observing, content, FALSE)
    /\ hasText' = SetterHasText(content)
    /\ nodeValue' = content
    /\ unobservedWrite' = (unobservedWrite \/ ~observing)
    /\ replica' = Replay(<<>>, unobservedWrite \/ ~observing)
    /\ last' = Quiet
    /\ UNCHANGED <<extraChild, auto, attached, observing, characterDataAlreadyHandled,
                   fragmentChangedCallbacks>>
    /\ UNCHANGED regVars
    /\ UNCHANGED extVars

\* an element is appended after, or removed from behind, the text node
ToggleExtraChild ==
    /\ hasText
    /\ Len(records) < MaxRecords
    /\ extraChild' = ~extraChild
    /\ records' = IF observing THEN Append(records, Rec("childList", "", "root", <<>>, FALSE))
                  ELSE records
    /\ last' = Quiet
    /\ UNCHANGED <<hasText, nodeValue, auto, attached, observing, characterDataAlreadyHandled,
                   fragmentChangedCallbacks, replica, unobservedWrite>>
    /\ UNCHANGED regVars
    /\ UNCHANGED extVars

\* setAttribute/removeAttribute on the root or on the child element; set auto
SetAttribute(name, target) ==
    /\ Len(records) < MaxRecords
    /\ target = "child" => extraChild
    /\ auto' = IF name = "auto" /\ target = "root" THEN ~auto ELSE auto
    /\ records' = IF observing THEN Append(records, Rec("attributes", name, target, <<>>, FALSE))
                  ELSE records
    /\ last' = Quiet
    /\ UNCHANGED <<hasText, nodeValue, extraChild, attached, observing,
                   characterDataAlreadyHandled, fragmentChangedCallbacks, replica,
                   unobservedWrite>>
    /\ UNCHANGED regVars
    /\ UNCHANGED extVars

\* the root is inserted into, or removed from, its parent
ToggleAttached ==
    /\ attached' = ~attached
    /\ last' = Quiet
    /\ UNCHANGED <<hasText, nodeValue, extraChild, auto, observing, records,
                   characterDataAlreadyHandled, fragmentChangedCallbacks, replica,
                   unobservedWrite>>
    /\ UNCHANGED regVars
    /\ UNCHANGED extVars

\* the MutationObserver delivers its queue: this.mutationHandler(mutations)
DeliverRecords ==
    /\ records # <<>>
    /\ \E patches \in PatchesFor(records) :
         LET res == mutationCallback(records, patches) IN
         /\ characterDataAlreadyHandled' = res.marker
         /\ replica' = Replay(res.ops, unobservedWrite)
         /\ last' = Last("mutationCallback", res, <<>>, FALSE, FALSE, "none")
    /\ records' = <<>>
    /\ UNCHANGED <<hasText, nodeValue, extraChild, auto, attached, observing,
                   fragmentChangedCallbacks, unobservedWrite>>
    /\ UNCHANGED regVars
    /\ UNCHANGED extVars

\* executeObserverless(method, context, skipChangeCheck); method assigns raw
\* (write.w), and may throw after that
ShouldTrigger(skipChangeCheck, before, after) == skipChangeCheck \/ before # after

ExecuteObserverless(write, throws, context, skipChangeCheck) ==
    \E patches \in PatchesFor(records) :
        LET flush == IF Len(records) > 0 THEN mutationCallback(records, patches) ELSE NoResult
            obs1 == disconnect(observing)
            before == Raw
            recs1 == IF write.w THEN SetterRecords(obs1, write.c, TRUE) ELSE <<>>
            raw1 == IF write.w THEN write.c ELSE Raw
            obs2 == IF throws THEN obs1 ELSE observe(obs1)
            notify == ~throws /\ ShouldTrigger(skipChangeCheck, before, raw1)
        IN  /\ characterDataAlreadyHandled' = flush.marker
            /\ replica' = Replay(flush.ops, unobservedWrite \/ (write.w /\ ~obs1))
            /\ records' = recs1
            /\ hasText' = IF write.w THEN SetterHasText(write.c) ELSE hasText
            /\ nodeValue' = raw1
            /\ observing' = obs2
            /\ unobservedWrite' = (unobservedWrite \/ (write.w /\ ~obs1))
            /\ last' = Last("executeObserverless", flush,
                            IF notify THEN triggerFragmentChanged(context) ELSE <<>>,
                            throws, skipChangeCheck, context)
            /\ UNCHANGED <<extraChild, auto, attached, fragmentChangedCallbacks>>
            /\ UNCHANGED regVars
            /\ UNCHANGED extVars

Writes == {[w |-> FALSE, c |-> <<>>]} \cup {[w |-> TRUE, c |-> c] : c \in RawContents}

NextFragment ==
    \/ \E c \in RawContents : SetRaw(c)
    \/ ToggleExtraChild
    \/ \E attr \in {<<"auto", "root">>, <<"class", "root">>, <<"id", "root">>, <<"auto", "child">>} :
          SetAttribute(attr[1], attr[2])
    \/ ToggleAttached
    \/ DeliverRecords
    \/ \E write \in Writes, throws \in BOOLEAN, skipChangeCheck \in BOOLEAN :
            ExecuteObserverless(write, throws, "editor", skipChangeCheck)

SpecFragment == InitFragment /\ [][NextFragment]_vars


\* ------------------------------------------------ the diff walk on its own
\* a fragment with a text node; every pair (old value, new value) of Contents is
\* written and delivered through mutationCallback
InitDiff ==
    /\ hasText = TRUE
    /\ nodeValue \in Contents
    /\ extraChild = FALSE
    /\ auto = FALSE
    /\ attached \in BOOLEAN
    /\ observing = TRUE
    /\ records = <<>>
    /\ characterDataAlreadyHandled = FALSE
    /\ fragmentChangedCallbacks = <<"h1", "h2">>
    /\ replica = Raw
    /\ unobservedWrite = FALSE
    /\ last = Quiet
    /\ RegIdle
    /\ ExtIdle

NextDiff ==
    \/ \E c \in Contents : SetRaw(c)
    \/ DeliverRecords

SpecDiff == InitDiff /\ [][NextDiff]_vars

\* ------------------------------------------------------------------ claims
Deliveries(log, h) == Cardinality({i \in 1..Len(log) : log[i].handler = h})

Handlers == {fragmentChangedCallbacks[i] : i \in 1..Len(fragmentChangedCallbacks)}

\* a record that asks for the generic changed notification
Qualifies(m) ==
    \/ m.type \in {"characterData", "childList"}
    \/ m.type = "attributes" /\ ~(m.attributeName \in {"auto", "class"} /\ m.target = "root")

\* C1: a batch delivered while the root has a parent and holding at least one
\* characterData, childList or non-suppressed attribute record notifies every
\* changed handler exactly once; a batch processed while the root has no parent
\* notifies none.
C1_ChangedOncePerBatch ==
    [][last'.op = "mutationCallback" =>
         /\ (attached /\ \E i \in 1..Len(records) : Qualifies(records[i]))
               => \A h \in Handlers : Deliveries(last'.changed, h) = 1
         /\ ~attached => last'.changed = <<>>]_vars

\* C2: as long as every write was made while the observer was running, a
\* subscriber replaying the delivered insert/delete callbacks holds exactly raw
\* after each batch.
C2_EventCompleteness ==
    (records = <<>> /\ ~unobservedWrite) => replica = Raw

\* C3: for a batch of one characterData record with old value a and new value b
\* the emitted insert/delete callbacks, applied in order to a, give b; only
\* inserts and deletes of non-empty values are emitted, and none when a = b.
C3_DiffReconstructs ==
    [][(last'.op = "mutationCallback" /\ Len(records) = 1
            /\ records[1].type = "characterData" /\ ~characterDataAlreadyHandled) =>
         /\ ApplyOps(last'.ops, records[1].oldValue) = nodeValue
         /\ \A i \in 1..Len(last'.ops) :
                last'.ops[i].kind \in {"insert", "delete"} /\ last'.ops[i].val # <<>>
         /\ records[1].oldValue = nodeValue => last'.ops = <<>>]_vars

C3_Witness ==
    /\ last.op = "mutationCallback"
    /\ \E i, j \in 1..Len(last.ops) :
          i < j /\ last.ops[i].kind = "insert" /\ last.ops[j].kind = "delete"
    /\ replica = nodeValue

\* C4: no insert/delete callback is ever made for a write done inside
\* executeObserverless; when the method has returned, every changed handler is
\* notified exactly once with the supplied context if the check is skipped or raw
\* differs from its value before the call, and nobody is notified otherwise.
C4_ScopedWrite ==
    [][/\ \A i \in 1..Len(last'.ops) : ~last'.ops[i].scoped
       /\ (last'.op = "executeObserverless" /\ ~last'.threw) =>
            IF last'.skip \/ Raw' # Raw
            THEN /\ \A h \in Handlers : Deliveries(last'.scopedChanged, h) = 1
                 /\ \A i \in 1..Len(last'.scopedChanged) :
                        last'.scopedChanged[i].context = last'.ctx
            ELSE last'.scopedChanged = <<>>]_vars

C4_Witness ==
    /\ last.op = "executeObserverless"
    /\ ~last.threw /\ ~last.skip
    /\ Len(last.scopedChanged) = 2
    /\ last.ops = <<>>
    /\ records = <<>>
    /\ unobservedWrite

\* C5: after a call of executeObserverless whose method threw, the observer is
\* observing again.
C5_ResumeAfterThrow ==
    (last.op = "executeObserverless" /\ last.threw) => observing


\* ====================================================== the statics of Fragment
\* ------------------------------------------------------------------ bounds
NumNodes == 2
MaxWrappers == 2
MaxPasses == 2
MaxDocRecords == 1

\* the code-fragment nodes, numbered in document order, and their data-type
Nodes == 1..NumNodes
Types == {"x", "y"}
NodeType(n) == IF n <= 2 THEN "x" ELSE "y"

NodeSeq == [i \in 1..NumNodes |-> i]

\* the classes a type id can be registered with
Classes == {"A", "B"}

IdlePass == [pc |-> "idle", todo |-> <<>>, i |-> 0, dead |-> FALSE, promoted |-> {}]

\* the fields an operation works on, as one value
Cur ==
    [types |-> fragmentTypes, unknown |-> unknownFragments, data |-> data,
     frags |-> fragments, flag |-> currentlyLoadingFragments, passes |-> passes,
     already |-> FALSE, threw |-> FALSE, overflow |-> FALSE,
     classes |-> fragmentClasses, promoting |-> {}, settled |-> {}, duplicate |-> FALSE,
     awaits |-> hookAwaits]

\* new fragmentClass(fragment): the wrapper as the constructor leaves it
NewFragment(n) == [node |-> n, isLoaded |-> FALSE, unloaded |-> FALSE, hooks |-> 0]

saveUnknownFragment(s, n, t) ==
    LET u == s.unknown IN
    [s EXCEPT !.unknown =
        IF t \in DOMAIN u THEN [u EXCEPT ![t] = @ \cup {n}]
        ELSE [k \in DOMAIN u \cup {t} |-> IF k = t THEN {n} ELSE u[k]]]

AlreadySetUp_Never(d) == FALSE

AlreadySetUp(d) == d # 0

setupFragment(s, n) ==
    IF AlreadySetUp(s.data[n]) THEN [s EXCEPT !.already = TRUE]
    ELSE IF NodeType(n) \notin s.types THEN saveUnknownFragment(s, n, NodeType(n))
    ELSE [s EXCEPT !.frags = Append(@, NewFragment(n)), !.data[n] = Len(s.frags) + 1]

\* fragment.unload(): html.data("Fragment", null); html = null
unload(s, w) ==
    [s EXCEPT !.frags[w].unloaded = TRUE, !.data[s.frags[w].node] = 0]

RECURSIVE SetupEach(_, _)
SetupEach(s, ns) ==
    IF ns = <<>> THEN s ELSE SetupEach(setupFragment(s, Head(ns)), Tail(ns))

find_Reversed(s) ==
    LET found == SelectSeq(NodeSeq, LAMBDA n : n \in inDocument /\ s.data[n] # 0)
    IN  [k \in 1..Len(found) |-> s.data[found[Len(found) + 1 - k]]]

\* Fragment.find("code-fragment"): the wrappers of the nodes in the document
find(s) ==
    LET found == SelectSeq(NodeSeq, LAMBDA n : n \in inDocument /\ s.data[n] # 0)
    IN  [k \in 1..Len(found) |-> s.data[found[k]]]

\* ------------------------------------------------------- runFragmentsLoaded
Gate_Open(installed) == FALSE

Gate(installed) == ~installed

MustWait_Never(flag) == FALSE

MustWait(flag) == flag

NotYetLoaded_Always(isLoaded) == TRUE

NotYetLoaded(isLoaded) == ~isLoaded

\* fragment.isLoaded = true; await fragment.onFragmentsLoaded()
InvokeHook(s, p, todo, i) ==
    [s EXCEPT !.frags[todo[i]].isLoaded = TRUE,
              !.frags[todo[i]].hooks = @ + 1,
              !.passes[p] = [pc |-> "hook", todo |-> todo, i |-> i,
                             dead |-> s.frags[todo[i]].unloaded,
                             promoted |-> s.passes[p].promoted]]

FreeSlots(s) == {p \in 1..MaxPasses : s.passes[p].pc = "idle"}

\* from currentlyLoadingFragments = true to the first await, or to the end
Enter(s, p) ==
    LET found == find(s)
        unloadedFragments == SelectSeq(found, LAMBDA w : NotYetLoaded(s.frags[w].isLoaded))
        marked == [s EXCEPT !.frags = [w \in 1..Len(s.frags) |->
                        IF \E k \in 1..Len(found) : found[k] = w
                        THEN [s.frags[w] EXCEPT !.isLoaded = TRUE] ELSE s.frags[w]]]
    IN  IF unloadedFragments = <<>>
        THEN [marked EXCEPT !.flag = FALSE, !.passes[p] = IdlePass,
                            !.settled = s.passes[p].promoted]
        ELSE InvokeHook([marked EXCEPT !.flag = TRUE], p, unloadedFragments, 1)

runFragmentsLoaded(s, installed) ==
    IF Gate(installed) THEN s
    ELSE IF FreeSlots(s) = {} THEN [s EXCEPT !.overflow = TRUE]
    ELSE LET p == CHOOSE q \in FreeSlots(s) : \A r \in FreeSlots(s) : q <= r
             started == [s EXCEPT !.passes[p] = [IdlePass EXCEPT !.promoted = s.promoting]]
         IN
         IF MustWait(s.flag)
         THEN [started EXCEPT !.passes[p].pc = "waiting"]
         ELSE Enter(started, p)

\* ------------------------------------------------------------------ actions
Commit(s) ==
    /\ ~s.overflow
    /\ Len(s.frags) <= MaxWrappers
    /\ fragmentTypes' = s.types
    /\ unknownFragments' = s.unknown
    /\ data' = s.data
    /\ fragments' = s.frags
    /\ currentlyLoadingFragments' = s.flag
    /\ passes' = s.passes
    /\ alreadySetUp' = s.already
    /\ fragmentClasses' = s.classes
    /\ settledPromotion' = s.settled
    /\ duplicateRegistration' = s.duplicate
    /\ hookAwaits' = [p \in 1..MaxPasses |->
                         IF s.awaits[p] # 0 /\ s.passes[s.awaits[p]].pc = "idle" THEN 0
                         ELSE s.awaits[p]]
    /\ observerThrew' = s.threw

FragIdle ==
    /\ hasText = FALSE
    /\ nodeValue = <<>>
    /\ extraChild = FALSE
    /\ auto = FALSE
    /\ attached = FALSE
    /\ observing = FALSE
    /\ records = <<>>
    /\ characterDataAlreadyHandled = FALSE
    /\ fragmentChangedCallbacks = <<>>
    /\ replica = <<>>
    /\ unobservedWrite = FALSE
    /\ last = Quiet

RECURSIVE SeqOfSet(_)
SeqOfSet(S) ==
    IF S = {} THEN <<>>
    ELSE LET m == CHOOSE x \in S : \A y \in S : x <= y IN <<m>> \o SeqOfSet(S \ {m})

\* the state when Fragment.setupFragments() has scanned the document and
\* installed its observer: no type is registered yet, so every node found in
\* the document is in the unknown set of its type
InitRegistry ==
    /\ inDocument \in SUBSET Nodes
    /\ fragmentTypes = {}
    /\ unknownFragments = [t \in {NodeType(n) : n \in inDocument} |->
                              {n \in inDocument : NodeType(n) = t}]
    /\ data = [n \in Nodes |-> 0]
    /\ fragments = <<>>
    /\ allInstalledRun = FALSE
    /\ currentlyLoadingFragments = FALSE
    /\ docRecords = <<>>
    /\ passes = [p \in 1..MaxPasses |-> IdlePass]
    /\ alreadySetUp = FALSE
    /\ fragmentClasses = <<>>
    /\ settledPromotion = {}
    /\ duplicateRegistration = FALSE
    /\ hookAwaits = [p \in 1..MaxPasses |-> 0]
    /\ observerThrew = FALSE
    /\ FragIdle
    /\ ExtIdle

loadUnknownFragments_Drop(s, t) ==
    IF t \in DOMAIN s.unknown THEN [s EXCEPT !.unknown[t] = {}] ELSE s

loadUnknownFragments(s, t) ==
    IF t \in DOMAIN s.unknown
    THEN LET s1 == SetupEach([s EXCEPT !.unknown[t] = {}], SeqOfSet(s.unknown[t])) IN
         runFragmentsLoaded(
            [s1 EXCEPT !.promoting = (Len(s.frags) + 1)..Len(s1.frags)],
            allInstalledRun)
    ELSE s

\* Map.set(type, fragmentClass)
SetClass(classes, t, c) ==
    [k \in DOMAIN classes \cup {t} |-> IF k = t THEN c ELSE classes[k]]

\* Map.delete(type)
DeleteClass(classes, t) == [k \in DOMAIN classes \ {t} |-> classes[k]]

AlreadyRegistered_Never(types, t) == FALSE

AlreadyRegistered(types, t) == t \in types

registerFragmentType(s, t, c) ==
    IF AlreadyRegistered(fragmentTypes, t)
    THEN [s EXCEPT !.duplicate = TRUE]
    ELSE loadUnknownFragments(
            [s EXCEPT !.types = @ \cup {t},
                      !.classes = SetClass(@, t, c),
                      !.duplicate = t \in fragmentTypes], t)

RegisterFragmentType(t, c) ==
    /\ Commit(registerFragmentType(Cur, t, c))
    /\ UNCHANGED <<inDocument, allInstalledRun, docRecords>>
    /\ UNCHANGED fragVars
    /\ UNCHANGED extVars

RECURSIVE UnloadEach(_, _, _)
UnloadEach(s, ns, t) ==
    IF ns = <<>> THEN s
    ELSE LET n == Head(ns)
             s1 == IF s.data[n] # 0 THEN unload(s, s.data[n]) ELSE s
         IN  UnloadEach(saveUnknownFragment(s1, n, t), Tail(ns), t)

UnRegisterFragmentType(t) ==
    /\ Commit(UnloadEach([Cur EXCEPT !.types = @ \ {t}, !.classes = DeleteClass(@, t)],
                         SelectSeq(NodeSeq, LAMBDA n : n \in inDocument /\ NodeType(n) = t), t))
    /\ UNCHANGED <<inDocument, allInstalledRun, docRecords>>
    /\ UNCHANGED fragVars
    /\ UNCHANGED extVars

\* Fragment.setupFragment(node), as Fragment.create() calls it: for a
\* registered type only, on a new node, which is outside the document
SetupFragment(n) ==
    /\ NodeType(n) \in fragmentTypes
    /\ n \notin inDocument
    /\ data[n] = 0
    /\ \A t \in DOMAIN unknownFragments : n \notin unknownFragments[t]
    /\ Commit(setupFragment(Cur, n))
    /\ UNCHANGED <<inDocument, allInstalledRun, docRecords>>
    /\ UNCHANGED fragVars
    /\ UNCHANGED extVars

\* wpm.onAllInstalled fires, once
AllInstalled ==
    /\ ~allInstalledRun
    /\ allInstalledRun' = TRUE
    /\ Commit(runFragmentsLoaded(Cur, TRUE))
    /\ UNCHANGED <<inDocument, docRecords>>
    /\ UNCHANGED fragVars
    /\ UNCHANGED extVars

InsertNode(n) ==
    /\ n \notin inDocument
    /\ Len(docRecords) < MaxDocRecords
    /\ inDocument' = inDocument \cup {n}
    /\ docRecords' = Append(docRecords, [kind |-> "added", node |-> n])
    /\ alreadySetUp' = FALSE
    /\ settledPromotion' = {}
    /\ duplicateRegistration' = FALSE
    /\ observerThrew' = FALSE
    /\ UNCHANGED <<fragmentTypes, unknownFragments, data, fragments, allInstalledRun,
                   currentlyLoadingFragments, passes, fragmentClasses, hookAwaits>>
    /\ UNCHANGED fragVars
    /\ UNCHANGED extVars

RemoveNode(n) ==
    /\ n \in inDocument
    /\ Len(docRecords) < MaxDocRecords
    /\ inDocument' = inDocument \ {n}
    /\ docRecords' = Append(docRecords, [kind |-> "removed", node |-> n])
    /\ alreadySetUp' = FALSE
    /\ settledPromotion' = {}
    /\ duplicateRegistration' = FALSE
    /\ observerThrew' = FALSE
    /\ UNCHANGED <<fragmentTypes, unknownFragments, data, fragments, allInstalledRun,
                   currentlyLoadingFragments, passes, fragmentClasses, hookAwaits>>
    /\ UNCHANGED fragVars
    /\ UNCHANGED extVars

\* mutations.forEach of the document observer; cQuery(node).data("Fragment")
\* is null for a removed node without wrapper and .unload() on it throws
RECURSIVE ProcessDocRecords(_, _)
ProcessDocRecords(s, ms) ==
    IF ms = <<>> \/ s.threw THEN s
    ELSE LET m == Head(ms) IN
         ProcessDocRecords(
            IF m.kind = "added" THEN setupFragment(s, m.node)
            ELSE IF s.data[m.node] = 0 THEN [s EXCEPT !.threw = TRUE]
            ELSE unload(s, s.data[m.node]),
            Tail(ms))

DocObserverDeliver ==
    /\ docRecords # <<>>
    /\ LET s == ProcessDocRecords(Cur, docRecords) IN
       Commit(IF s.threw THEN s ELSE runFragmentsLoaded(s, allInstalledRun))
    /\ docRecords' = <<>>
    /\ UNCHANGED <<inDocument, allInstalledRun>>
    /\ UNCHANGED fragVars
    /\ UNCHANGED extVars

\* the timer of the busy-wait fires and the flag is clear
PassWake(p) ==
    /\ passes[p].pc = "waiting"
    /\ ~MustWait(currentlyLoadingFragments)
    /\ Commit(Enter(Cur, p))
    /\ UNCHANGED <<inDocument, allInstalledRun, docRecords>>
    /\ UNCHANGED fragVars
    /\ UNCHANGED extVars

\* the hook that pass p awaits calls registerFragmentType and awaits the
\* promise it returns: the promise of the load pass that the registration
\* started, when it started one
HookRegisters(p, t, c) ==
    /\ passes[p].pc = "hook"
    /\ hookAwaits[p] = 0
    /\ LET s == registerFragmentType(Cur, t, c)
           started == {q \in 1..MaxPasses : passes[q].pc = "idle" /\ s.passes[q].pc # "idle"}
       IN  Commit(IF started = {} THEN s
                  ELSE [s EXCEPT !.awaits[p] = CHOOSE q \in started : TRUE])
    /\ UNCHANGED <<inDocument, allInstalledRun, docRecords>>
    /\ UNCHANGED fragVars
    /\ UNCHANGED extVars

\* the promise of the awaited hook settles and the pass resumes: the next
\* hook is invoked, or the flag is cleared; a rejection leaves the function.
\* A hook that awaits a load pass does not settle before that pass has
HookSettle(p, ok) ==
    /\ passes[p].pc = "hook"
    /\ hookAwaits[p] = 0
    /\ passes[p].dead => ~ok
    /\ LET todo == passes[p].todo
           i == passes[p].i
       IN  Commit(IF ~ok THEN [Cur EXCEPT !.passes[p] = IdlePass,
                                          !.settled = passes[p].promoted]
                  ELSE IF i = Len(todo)
                  THEN [Cur EXCEPT !.flag = FALSE, !.passes[p] = IdlePass,
                                   !.settled = passes[p].promoted]
                  ELSE InvokeHook(Cur, p, todo, i + 1))
    /\ UNCHANGED <<inDocument, allInstalledRun, docRecords>>
    /\ UNCHANGED fragVars
    /\ UNCHANGED extVars

NextRegistry ==
    \/ \E t \in Types, c \in Classes : RegisterFragmentType(t, c)
    \/ \E t \in Types : UnRegisterFragmentType(t)
    \/ \E n \in Nodes : SetupFragment(n)
    \/ AllInstalled
    \/ \E n \in Nodes : InsertNode(n)
    \/ \E n \in Nodes : RemoveNode(n)
    \/ DocObserverDeliver
    \/ \E p \in 1..MaxPasses : PassWake(p)
    \/ \E p \in 1..MaxPasses, t \in Types, c \in Classes : HookRegisters(p, t, c)
    \/ \E p \in 1..MaxPasses, ok \in BOOLEAN : HookSettle(p, ok)

SpecRegistry == InitRegistry /\ [][NextRegistry]_vars


\* ------------------------------------------------------------------ claims
InHook == {p \in 1..MaxPasses : passes[p].pc = "hook"}

Pending(p) == {passes[p].todo[k] : k \in (passes[p].i + 1)..Len(passes[p].todo)}

Selected(p) == {passes[p].todo[k] : k \in 1..Len(passes[p].todo)}

Wrappers == 1..Len(fragments)

\* C6: at no time are two load passes between setting and clearing
\* currentlyLoadingFragments, so no two on-loaded hooks are in progress at once,
\* and the flag is set while a hook is in progress.
C6_OnePassAtATime ==
    /\ Cardinality(InHook) <= 1
    /\ InHook # {} => currentlyLoadingFragments

C6_Witness ==
    \E p, q \in 1..MaxPasses : passes[p].pc = "hook" /\ passes[q].pc = "waiting"

\* C7: the on-loaded hook of a wrapper is invoked at most once, and every
\* fragment a pass has selected is marked loaded while the pass awaits a hook.
C7_HookAtMostOnce ==
    /\ \A w \in Wrappers : fragments[w].hooks <= 1
    /\ \A p \in InHook : \A w \in Selected(p) : fragments[w].isLoaded

C7_Witness ==
    \E w \in Wrappers, p \in InHook :
        /\ fragments[w].hooks = 1
        /\ fragments[w].node \in inDocument
        /\ data[fragments[w].node] = w
        /\ w \notin Selected(p)

\* C8: a hook that throws or rejects does not abort the pass: a fragment that a
\* pass has marked loaded has had its hook invoked, or that pass is still
\* running and will invoke it.
C8_RejectionDoesNotAbort ==
    \A w \in Wrappers :
        (fragments[w].isLoaded /\ fragments[w].hooks = 0) =>
            \E p \in InHook : w \in Pending(p)

\* C9: as long as the all-installed signal has not fired no hook has been
\* invoked and no pass holds the flag, and registering a type nevertheless
\* wraps the nodes that were unknown under it.
C9_GateBeforeAllInstalled ==
    [][~allInstalledRun' =>
         /\ \A w \in 1..Len(fragments') : fragments'[w].hooks = 0
         /\ ~currentlyLoadingFragments'
         /\ \A t \in fragmentTypes' \ fragmentTypes :
                t \in DOMAIN unknownFragments =>
                    \A n \in unknownFragments[t] : data'[n] # 0]_vars

C9_Witness ==
    /\ ~allInstalledRun
    /\ \E n \in inDocument :
          data[n] # 0 /\ ~fragments[data[n]].isLoaded /\ fragments[data[n]].hooks = 0

\* C10: every node has at most one live wrapper, the one its data slot names;
\* a wrapper leaves the slot of its node only by being unloaded, never by a
\* further setupFragment on the node.
Live(n) == {w \in Wrappers : fragments[w].node = n /\ ~fragments[w].unloaded}

SingleWrapper ==
    \A n \in Nodes :
        /\ Cardinality(Live(n)) <= 1
        /\ data[n] # 0 => Live(n) = {data[n]}

C10_SingleWrapper ==
    [][/\ SingleWrapper'
       /\ \A n \in Nodes : (data[n] # 0 /\ data'[n] # data[n]) => fragments'[data[n]].unloaded
       /\ (alreadySetUp' /\ Len(fragments') = Len(fragments)) => data' = data \/ docRecords # <<>> ]_vars

C10_Witness ==
    /\ alreadySetUp
    /\ \E n \in Nodes : data[n] # 0 /\ Live(n) = {data[n]}

\* C11: when registerFragmentType(T) returns, every node that was unknown under
\* T is wrapped and out of the unknown set; and once the load pass that the
\* registration started (the all-installed signal has fired) has settled, every
\* wrapper the registration constructed and that was not unloaded since has had
\* its on-loaded hook invoked exactly once.
C11_PromotionLoadsOnce ==
    [][/\ \A t \in fragmentTypes' \ fragmentTypes :
              t \in DOMAIN unknownFragments =>
                  \A n \in unknownFragments[t] :
                      data'[n] # 0 /\ n \notin unknownFragments'[t]
       /\ \A w \in settledPromotion' :
              fragments'[w].unloaded \/ fragments'[w].hooks = 1]_vars

\* C12: after unRegisterFragmentType(T) every live wrapper of a node of type T
\* has been unloaded and its node is in the unknown set under T; registering T
\* again wraps each node of that unknown set again.
C12_UnregisterRoundTrip ==
    [][/\ \A t \in fragmentTypes \ fragmentTypes' :
              \A w \in Wrappers :
                  (NodeType(fragments[w].node) = t /\ ~fragments[w].unloaded) =>
                      /\ fragments'[w].unloaded
                      /\ t \in DOMAIN unknownFragments'
                      /\ fragments[w].node \in unknownFragments'[t]
       /\ \A t \in fragmentTypes' \ fragmentTypes :
              t \in DOMAIN unknownFragments =>
                  \A n \in unknownFragments[t] :
                      data'[n] # 0 /\ ~fragments'[data'[n]].unloaded]_vars

\* C19: registerFragmentType for a type id that is already registered keeps
\* the mapping from type ids to classes and constructs, promotes or unloads no
\* fragment and starts no load pass.
C19_DuplicateRegistration ==
    [][duplicateRegistration' =>
          UNCHANGED <<fragmentTypes, fragmentClasses, unknownFragments, data,
                      fragments, passes, currentlyLoadingFragments>>]_vars

C19_Witness ==
    /\ duplicateRegistration
    /\ \E n \in Nodes : data[n] # 0
    /\ \E n \in Nodes : data[n] = 0 /\ n \in inDocument

\* C15: an auto or class record on the root suppresses the changed notification
\* for that record only: a batch delivered while the root has a parent that
\* holds such a record and also a characterData, childList or other attribute
\* record notifies every changed handler exactly once, in whatever order the
\* records are.
Suppressed(m) ==
    m.type = "attributes" /\ m.attributeName \in {"auto", "class"} /\ m.target = "root"

C15_SuppressionPerRecord ==
    [][(/\ last'.op = "mutationCallback"
        /\ attached
        /\ \E i \in 1..Len(records) : Suppressed(records[i])
        /\ \E j \in 1..Len(records) : Qualifies(records[j])) =>
          \A h \in Handlers : Deliveries(last'.changed, h) = 1]_vars


\* ================================== the callback lists and unload of a fragment
\* ------------------------------------------------------------------ bounds
MaxCallbacks == 3
MaxDisposers == 2

\* the six callback arrays of the constructor, and the callbacks of subscribers
Kinds == {"changed", "unloaded", "autoChanged", "textInserted", "textDeleted", "classChanged"}
CallbackIds == {1, 2}

\* Array.prototype.indexOf, zero-based, -1 when absent
indexOf(list, h) ==
    IF \E i \in 1..Len(list) : list[i] = h
    THEN (CHOOSE i \in 1..Len(list) : list[i] = h /\ \A j \in 1..(i - 1) : list[j] # h) - 1
    ELSE -1

\* Array.prototype.splice(start, 1): a negative start counts from the end
splice(list, start) ==
    LET from == IF start < 0 THEN (IF Len(list) + start < 0 THEN 0 ELSE Len(list) + start)
                ELSE start
    IN  IF from >= Len(list) THEN list
        ELSE [i \in 1..(Len(list) - 1) |-> IF i <= from THEN list[i] ELSE list[i + 1]]

Registered == LET RECURSIVE Sum(_)
                  Sum(K) == IF K = {} THEN 0
                            ELSE LET k == CHOOSE x \in K : TRUE IN Len(callbacks[k]) + Sum(K \ {k})
              IN  Sum(Kinds)

Call(op, kind, h, invoked, threw) ==
    [op |-> op, kind |-> kind, h |-> h, invoked |-> invoked, threw |-> threw,
     steps |-> <<>>, supportsAutoDom |-> FALSE]

\* after the constructor: six empty arrays, html set
InitHandlers ==
    /\ callbacks = [k \in Kinds |-> <<>>]
    /\ html = "node"
    /\ disposers = {}
    /\ called = Call("new", "none", 0, <<>>, FALSE)
    /\ subscribed = [k \in Kinds |-> <<>>]
    /\ FragIdle
    /\ RegIdle
    /\ EdIdle
    /\ AutoIdle
    /\ TypeIdle

\* registerOn...Handler(callback): push, and hand out a disposer
RegisterHandler(kind, h) ==
    /\ Registered < MaxCallbacks
    /\ \A k \in Kinds : Len(subscribed[k]) < MaxCallbacks
    /\ <<kind, h>> \in disposers \/ Cardinality(disposers) < MaxDisposers
    /\ callbacks' = [callbacks EXCEPT ![kind] = Append(@, h)]
    /\ disposers' = disposers \cup {<<kind, h>>}
    /\ called' = Call("register", kind, h, <<>>, FALSE)
    /\ subscribed' = [subscribed EXCEPT ![kind] = Append(@, h)]
    /\ UNCHANGED html
    /\ UNCHANGED <<fragVars, regVars, edVars, autoVars, dataType, scss>>

\* what is left of the subscriptions when one subscription of h is given up
Unsubscribe(list, h) == IF indexOf(list, h) >= 0 THEN splice(list, indexOf(list, h)) ELSE list

RECURSIVE UnsubscribeEach(_, _)
UnsubscribeEach(list, hs) ==
    IF hs = <<>> THEN list ELSE UnsubscribeEach(Unsubscribe(list, Head(hs)), Tail(hs))

\* disposer.delete(): callbacks.splice(callbacks.indexOf(callback), 1)
Delete(kind, h) ==
    /\ <<kind, h>> \in disposers
    /\ callbacks' = [callbacks EXCEPT ![kind] = splice(@, indexOf(@, h))]
    /\ called' = Call("delete", kind, h, <<>>, FALSE)
    /\ subscribed' = [subscribed EXCEPT ![kind] = Unsubscribe(@, h)]
    /\ UNCHANGED <<html, disposers>>
    /\ UNCHANGED <<fragVars, regVars, edVars, autoVars, dataType, scss>>

\* triggerFragmentChanged calls each callback inside try/catch; the walks of
\* the other kinds do not
Catches(kind) == kind = "changed"

\* the callbacks a walk over list invokes when the ones in throwing throw
Invoked(list, kind, throwing) ==
    IF Catches(kind) \/ \A i \in 1..Len(list) : list[i] \notin throwing THEN list
    ELSE SubSeq(list, 1, CHOOSE i \in 1..Len(list) :
                            list[i] \in throwing /\ \A j \in 1..(i - 1) : list[j] \notin throwing)

\* the fragment notifies the subscribers of one kind (it observes its node)
Notify(kind, throwing) ==
    /\ kind # "unloaded"
    /\ html = "node"
    /\ called' = Call("notify", kind, 0, Invoked(callbacks[kind], kind, throwing),
                      ~Catches(kind) /\ \E i \in 1..Len(callbacks[kind]) :
                                           callbacks[kind][i] \in throwing)
    /\ UNCHANGED <<callbacks, html, disposers, subscribed>>
    /\ UNCHANGED <<fragVars, regVars, edVars, autoVars, dataType, scss>>

IteratesCopy_Live == FALSE

\* this.fragmentUnloadedCallbacks.slice().forEach(...): the copy is walked
IteratesCopy == TRUE

\* Array.prototype.forEach from index i on, over the copy or over the array
\* itself; a callback in deleting calls the delete() of its own disposer
RECURSIVE forEachUnloaded(_, _, _, _, _)
forEachUnloaded(copy, list, i, deleting, invoked) ==
    LET walked == IF IteratesCopy THEN copy ELSE list IN
    IF i > Len(copy) THEN [invoked |-> invoked, list |-> list]
    ELSE IF i > Len(walked) THEN forEachUnloaded(copy, list, i + 1, deleting, invoked)
    ELSE LET h == walked[i] IN
         forEachUnloaded(copy,
                         IF h \in deleting THEN splice(list, indexOf(list, h)) ELSE list,
                         i + 1, deleting, Append(invoked, h))

\* the statements of unload() in the order in which they are executed, up to
\* the one that throws
unloadSteps(supports, root) ==
    <<"callbacks">>
    \o (IF supports THEN <<"clearAutoDom">> ELSE <<>>)
    \o <<"stopObserver">>
    \o (IF root = "null" THEN <<>> ELSE <<"data(Fragment, null)", "html = null">>)

\* unload(): the unloaded callbacks over a copy, clearAutoDom, stopObserver,
\* this.html.data("Fragment", null) (a TypeError when html is null), html = null
Unload(supports, deleting) ==
    /\ LET walk == forEachUnloaded(callbacks["unloaded"], callbacks["unloaded"], 1,
                                   deleting, <<>>)
       IN  /\ called' = [Call("unload", "unloaded", 0, walk.invoked, html = "null")
                            EXCEPT !.steps = unloadSteps(supports, html),
                                   !.supportsAutoDom = supports]
           /\ callbacks' = [callbacks EXCEPT !["unloaded"] = walk.list]
           /\ subscribed' = [subscribed EXCEPT !["unloaded"] =
                                UnsubscribeEach(@, SelectSeq(walk.invoked,
                                                             LAMBDA h : h \in deleting))]
    /\ html' = "null"
    /\ UNCHANGED disposers
    /\ UNCHANGED <<fragVars, regVars, edVars, autoVars, dataType, scss>>

NextHandlers ==
    \/ \E kind \in Kinds, h \in CallbackIds : RegisterHandler(kind, h)
    \/ \E kind \in Kinds, h \in CallbackIds : Delete(kind, h)
    \/ \E kind \in Kinds, throwing \in SUBSET CallbackIds : Notify(kind, throwing)
    \/ \E supports \in BOOLEAN, deleting \in SUBSET CallbackIds : Unload(supports, deleting)

SpecHandlers == InitHandlers /\ [][NextHandlers]_vars

Occurrences(list, h) == Cardinality({i \in 1..Len(list) : list[i] = h})

\* C13: unload() is idempotent: a second unload() on the same fragment does not
\* throw, invokes no unload callback again and leaves the state as the first
\* call left it.
C13_UnloadIdempotent ==
    [][(called'.op = "unload" /\ html = "null") =>
          /\ ~called'.threw
          /\ called'.invoked = <<>>
          /\ UNCHANGED <<callbacks, html>>]_vars

\* C14: delete() of a disposer, called any number of times, before or after
\* unload, never throws and removes no callback other than the one the disposer
\* was created for: every other subscription stays in its array.
C14_DisposerRemovesOwn ==
    [][called'.op = "delete" =>
          /\ ~called'.threw
          /\ \A k \in Kinds, g \in CallbackIds :
                 (k # called'.kind \/ g # called'.h) =>
                     Occurrences(callbacks'[k], g) = Occurrences(callbacks[k], g)]_vars


\* ============================================================ EditorManager
\* ------------------------------------------------------------------ bounds
MaxFragments == 2

\* the editor classes of the repository and the fragment types they list
EditorClasses == {"AceEditor", "MonacoEditor", "PreviewEditor"}
PreviewEditor == "PreviewEditor"
EditorFragmentTypes == {"text/javascript", "text/html", "text/markdown"}

types(editor) ==
    CASE editor = "AceEditor" -> {"text/javascript", "text/html"}
      [] editor = "MonacoEditor" -> {"text/javascript"}
      [] editor = "PreviewEditor" -> {"text/html", "text/markdown"}

\* Set.add / Set.delete on a Set kept in insertion order
SetAdd(set, e) == IF \E i \in 1..Len(set) : set[i] = e THEN set ELSE Append(set, e)
SetDelete(set, e) == SelectSeq(set, LAMBDA x : x # e)

\* editorTypes.get(type), with the empty Set that the callers store when the
\* key is missing
GetEditors(map, t) == IF t \in DOMAIN map THEN map[t] ELSE <<>>

\* editor.types().forEach(type => ...): the Set of each listed type is
\* fetched, stored when it was missing, and updated
AddToEach(map, ts, e) ==
    [k \in DOMAIN map \cup ts |-> IF k \in ts THEN SetAdd(GetEditors(map, k), e) ELSE map[k]]

DeleteFromEach(map, ts, e) ==
    [k \in DOMAIN map \cup ts |-> IF k \in ts THEN SetDelete(GetEditors(map, k), e) ELSE map[k]]

\* availableEditors is an Array: it has length, and no property named size
size(array) == {}

\* undefined > 0 is false
GreaterThan(value, k) == \E v \in value : v > k

\* createEditor for one fragment; explicit is config.editor, "null" when absent
RECURSIVE createEditorOne(_, _, _)
createEditorOne(map, fragmentType, explicit) ==
    IF explicit # "null"
    THEN IF fragmentType \in types(explicit) THEN <<explicit>>
         ELSE createEditorOne(map, fragmentType, "null")
    ELSE LET editors == GetEditors(map, fragmentType)
             availableEditors == SelectSeq(editors, LAMBDA editor : editor # PreviewEditor)
         IN  IF GreaterThan(size(availableEditors), 0) THEN <<availableEditors[1]>> ELSE <<>>

RECURSIVE createEditor(_, _, _)
createEditor(map, fragment, explicit) ==
    IF fragment.isArray
    THEN IF fragment.of = <<>> THEN <<>>
         ELSE createEditorOne(map, Head(fragment.of), explicit)
              \o createEditor(map, [fragment EXCEPT !.of = Tail(@)], explicit)
    ELSE createEditorOne(map, fragment.of[1], explicit)

\* the types for which createEditor stores an empty Set when the key is missing
Looked(fragment, explicit) ==
    {fragment.of[i] : i \in 1..(IF fragment.isArray THEN Len(fragment.of) ELSE 1)}
        \ (IF explicit = "null" THEN {} ELSE types(explicit))

FragmentArgs ==
    {[isArray |-> FALSE, of |-> <<t>>] : t \in EditorFragmentTypes}
        \cup {[isArray |-> TRUE, of |-> ts] :
                 ts \in UNION {[1..k -> EditorFragmentTypes] : k \in 0..MaxFragments}}

InitEditors ==
    /\ editorTypes = <<>>
    /\ lastCreate = [op |-> "none", fragment |-> [isArray |-> TRUE, of |-> <<>>],
                     explicit |-> "null", result |-> <<>>]
    /\ boundEditors = <<>>
    /\ lastEdit = <<>>
    /\ FragIdle
    /\ RegIdle
    /\ HdlIdle
    /\ AutoIdle
    /\ TypeIdle

RegisterEditor(editor) ==
    /\ editorTypes' = AddToEach(editorTypes, types(editor), editor)
    /\ lastCreate' = [lastCreate EXCEPT !.op = "registerEditor"]
    /\ UNCHANGED <<boundEditors, lastEdit>>
    /\ UNCHANGED <<fragVars, regVars, hdlVars, autoVars, dataType, scss>>

UnregisterEditor(editor) ==
    /\ editorTypes' = DeleteFromEach(editorTypes, types(editor), editor)
    /\ lastCreate' = [lastCreate EXCEPT !.op = "unregisterEditor"]
    /\ UNCHANGED <<boundEditors, lastEdit>>
    /\ UNCHANGED <<fragVars, regVars, hdlVars, autoVars, dataType, scss>>

CreateEditor(fragment, explicit) ==
    /\ lastCreate' = [op |-> "createEditor", fragment |-> fragment, explicit |-> explicit,
                      result |-> createEditor(editorTypes, fragment, explicit)]
    /\ editorTypes' = [k \in DOMAIN editorTypes \cup Looked(fragment, explicit) |->
                          GetEditors(editorTypes, k)]
    /\ UNCHANGED <<boundEditors, lastEdit>>
    /\ UNCHANGED <<fragVars, regVars, hdlVars, autoVars, dataType, scss>>

NextEditors ==
    \/ \E editor \in EditorClasses : RegisterEditor(editor)
    \/ \E editor \in EditorClasses : UnregisterEditor(editor)
    \/ \E fragment \in FragmentArgs, explicit \in EditorClasses \cup {"null"} :
          CreateEditor(fragment, explicit)

SpecEditors == InitEditors /\ [][NextEditors]_vars

\* C20: createEditor(fragment, config) for one fragment and without
\* config.editor returns a list of one editor, of a class registered for
\* fragment.type and other than PreviewEditor, whenever such a class is
\* registered, and the empty list otherwise.
C20_AutoDiscovery ==
    [][(/\ lastCreate'.op = "createEditor"
        /\ ~lastCreate'.fragment.isArray
        /\ lastCreate'.explicit = "null") =>
          LET t == lastCreate'.fragment.of[1]
              usable == {e \in EditorClasses \ {PreviewEditor} :
                            \E i \in 1..Len(GetEditors(editorTypes, t)) :
                                GetEditors(editorTypes, t)[i] = e}
          IN  IF usable # {}
              THEN Len(lastCreate'.result) = 1 /\ lastCreate'.result[1] \in usable
              ELSE lastCreate'.result = <<>>]_vars


\* ================================================ the auto-DOM of a fragment
\* one fragment of a type whose supportsAutoDom() is true, its observer and
\* its companion node
\* ------------------------------------------------------------------ bounds
MaxAutoRecords == 2
MaxPending == 2
MaxCompanions == 2

AutoRaws == {<<"a">>, <<"a", "b">>}

\* Fragment.disableAutorun: initialised to false and assigned nowhere
disableAutorun == FALSE

NoTransient == [exists |-> FALSE, id |-> 1, content |-> <<>>, under |-> "parent"]

\* the companion an operation has created
NotCreated == [made |-> FALSE, under |-> "parent", id |-> "uuid", classes |-> {}]

\* what one operation does to the auto-DOM fields, as one value
AutoCur ==
    [dirty |-> autoDomDirty, transient |-> transient, pending |-> pendingAutoDom,
     stray |-> strayCompanions, started |-> 0, patched |-> FALSE, rejected |-> FALSE,
     created |-> NotCreated]

\* insertAutoDom() up to its first await: createAutoDom() calls require(),
\* which reads raw
insertAutoDom(st, raw) ==
    IF ~st.dirty THEN st
    ELSE [st EXCEPT !.dirty = FALSE, !.pending = Append(@, raw), !.started = @ + 1]

DirtyOnClear_Keep(dirty) == dirty

DirtyOnClear(dirty) == TRUE

clearAutoDom(st) ==
    [st EXCEPT !.transient = [@ EXCEPT !.exists = FALSE, !.content = <<>>],
               !.dirty = DirtyOnClear(@)]

onAutoChanged(st, a, raw) ==
    IF a /\ ~disableAutorun THEN insertAutoDom(st, raw) ELSE clearAutoDom(st)

\* the changed handler that setupAutoDomHandling registers
autoDomChanged(st, a, raw) ==
    IF a /\ ~disableAutorun
    THEN insertAutoDom([st EXCEPT !.dirty = TRUE], raw)
    ELSE st

RECURSIVE AutoChangedTimes(_, _, _, _)
AutoChangedTimes(st, k, a, raw) ==
    IF k = 0 THEN st ELSE AutoChangedTimes(onAutoChanged(st, a, raw), k - 1, a, raw)

\* mutationCallback of such a fragment: onAutoChanged(this.auto) for each auto
\* record while the records are walked, then the changed handlers
AfterBatch(st, res, a, raw) ==
    LET s1 == AutoChangedTimes(st, res.autoChanged, a, raw) IN
    IF res.changed # <<>> THEN autoDomChanged(s1, a, raw) ELSE s1

AutoCommit(st, op, ok) ==
    /\ Len(st.pending) <= MaxPending
    /\ st.stray <= MaxCompanions
    /\ autoDomDirty' = st.dirty
    /\ transient' = st.transient
    /\ pendingAutoDom' = st.pending
    /\ strayCompanions' = st.stray
    /\ autoLast' = [op |-> op, started |-> st.started, ok |-> ok, patched |-> st.patched,
                    rejected |-> st.rejected, created |-> st.created,
                    newest |-> IF st.started > 0 THEN st.pending[Len(st.pending)]
                               ELSE IF st.pending = <<>> THEN <<>>
                               ELSE autoLast.newest]

InitAutoDom ==
    /\ hasText = TRUE
    /\ nodeValue \in AutoRaws
    /\ extraChild = FALSE
    /\ auto \in BOOLEAN
    /\ attached \in BOOLEAN
    /\ observing = TRUE
    /\ records = <<>>
    /\ characterDataAlreadyHandled = FALSE
    /\ fragmentChangedCallbacks = <<"autoDom">>
    /\ replica = <<>>
    /\ unobservedWrite = FALSE
    /\ last = Quiet
    /\ autoDomDirty = TRUE
    /\ transient = NoTransient
    /\ pendingAutoDom = <<>>
    /\ autoLast = [op |-> "new", started |-> 0, ok |-> TRUE, patched |-> FALSE,
                   rejected |-> FALSE, created |-> NotCreated, newest |-> <<>>]
    /\ parentInDocument = attached
    /\ strayCompanions = 0
    /\ classList = {}
    /\ RegIdle
    /\ HdlIdle
    /\ EdIdle
    /\ TypeIdle

\* fragment.raw = content
AutoEdit(content) ==
    /\ html = "node"
    /\ Len(records) < MaxAutoRecords
    /\ records' = records \o SetterRecords(observing, content, FALSE)
    /\ nodeValue' = content
    /\ AutoCommit(AutoCur, "edit", TRUE)
    /\ UNCHANGED <<hasText, extraChild, auto, attached, observing, characterDataAlreadyHandled,
                   fragmentChangedCallbacks, replica, unobservedWrite, last>>
    /\ UNCHANGED <<parentInDocument, classList>>
    /\ UNCHANGED <<regVars, hdlVars, edVars, dataType, scss>>

\* fragment.auto = !fragment.auto, or a class of the root is changed
AutoSetAttribute(name) ==
    /\ html = "node"
    /\ Len(records) < MaxAutoRecords
    /\ auto' = IF name = "auto" THEN ~auto ELSE auto
    /\ classList' = IF name = "class" THEN (IF classList = {} THEN {"c"} ELSE {}) ELSE classList
    /\ UNCHANGED parentInDocument
    /\ records' = Append(records, Rec("attributes", name, "root", <<>>, FALSE))
    /\ AutoCommit(AutoCur, "attribute", TRUE)
    /\ UNCHANGED <<hasText, nodeValue, extraChild, attached, observing,
                   characterDataAlreadyHandled, fragmentChangedCallbacks, replica,
                   unobservedWrite, last>>
    /\ UNCHANGED <<regVars, hdlVars, edVars, dataType, scss>>

\* the root is removed from, or inserted into, its parent
AutoReparent(inDoc) ==
    /\ html = "node"
    /\ attached' = ~attached
    /\ parentInDocument' = (attached' /\ inDoc)
    /\ UNCHANGED classList
    /\ AutoCommit(AutoCur, "reparent", TRUE)
    /\ UNCHANGED <<hasText, nodeValue, extraChild, auto, observing, records,
                   characterDataAlreadyHandled, fragmentChangedCallbacks, replica,
                   unobservedWrite, last>>
    /\ UNCHANGED <<regVars, hdlVars, edVars, dataType, scss>>

\* the observer delivers its queue
AutoDeliver ==
    /\ html = "node"
    /\ records # <<>>
    /\ \E patches \in PatchesFor(records) :
         LET res == mutationCallback(records, patches) IN
         /\ characterDataAlreadyHandled' = res.marker
         /\ AutoCommit(AfterBatch(AutoCur, res, auto, Raw), "mutationCallback", TRUE)
    /\ records' = <<>>
    /\ UNCHANGED <<hasText, nodeValue, extraChild, auto, attached, observing,
                   fragmentChangedCallbacks, replica, unobservedWrite, last>>
    /\ UNCHANGED <<parentInDocument, classList>>
    /\ UNCHANGED <<regVars, hdlVars, edVars, dataType, scss>>

\* fragment.executeObserverless(() => { fragment.raw = content }, context)
AutoScopedWrite(content) ==
    /\ html = "node"
    /\ \E patches \in PatchesFor(records) :
         LET flush == IF Len(records) > 0 THEN mutationCallback(records, patches) ELSE NoResult
             s1 == AfterBatch(AutoCur, flush, auto, Raw)
             s2 == IF ShouldTrigger(FALSE, Raw, content) THEN autoDomChanged(s1, auto, content)
                   ELSE s1
         IN  /\ characterDataAlreadyHandled' = flush.marker
             /\ AutoCommit(s2, "executeObserverless", TRUE)
    /\ records' = SetterRecords(disconnect(observing), content, TRUE)
    /\ nodeValue' = content
    /\ observing' = observe(disconnect(observing))
    /\ UNCHANGED <<hasText, extraChild, auto, attached, fragmentChangedCallbacks, replica,
                   unobservedWrite, last>>
    /\ UNCHANGED <<parentInDocument, classList>>
    /\ UNCHANGED <<regVars, hdlVars, edVars, dataType, scss>>

PatchInPlace_Recreate(t, content) ==
    [exists |-> TRUE, id |-> 3 - t.id, content |-> content, under |-> t.under]

\* diff.innerHTML(oldTransient[0], autoDomContent)
PatchInPlace(t, content) == [t EXCEPT !.content = content]

InsertedUnder_Root == "root"

\* this.html[0].parentNode.insertBefore(transient[0], this.html[0].nextSibling)
InsertedUnder == "parent"

\* the catch of insertAutoDom: the state is dirty again and the promise that
\* insertAutoDom returned, which no caller keeps, is rejected
Caught(st) == [st EXCEPT !.dirty = TRUE, !.rejected = TRUE]

\* the else branch of insertAutoDom: a new transient with the id and the
\* classes of the root, inserted after the root
CreateTransient(st, content) ==
    LET made == [made |-> TRUE, under |-> InsertedUnder, id |-> "uuid", classes |-> classList]
    IN  IF html = "null" \/ ~attached THEN Caught(st)
        ELSE IF parentInDocument
        THEN [st EXCEPT !.created = made,
                        !.transient = [exists |-> TRUE, id |-> 3 - transient.id,
                                       content |-> content, under |-> InsertedUnder]]
        ELSE [st EXCEPT !.created = made, !.stray = @ + 1]

\* the records the observer of the root queues for what the operation did to
\* the companion
CompanionRecords(st) ==
    IF /\ observing
       /\ \/ st.created.made /\ st.created.under = "root"
          \/ transient.exists /\ transient.under = "root" /\ st.transient # transient
    THEN <<Rec("childList", "", "root", <<>>, FALSE)>>
    ELSE <<>>

\* the rest of insertAutoDom once createAutoDom() has settled: ok says whether
\* require() resolved (createAutoDom returns null when it rejected); nullPatch
\* is what the diff and query libraries make of a null content
AutoSettle(i, ok, nullPatch) ==
    /\ i \in 1..Len(pendingAutoDom)
    /\ ok => nullPatch = "none"
    /\ (~ok /\ transient.exists /\ html = "node") = (nullPatch # "none")
    /\ LET raw == pendingAutoDom[i]
           rest == [k \in 1..(Len(pendingAutoDom) - 1) |->
                       IF k < i THEN pendingAutoDom[k] ELSE pendingAutoDom[k + 1]]
           st == [AutoCur EXCEPT !.pending = rest, !.patched = transient.exists]
           done == IF transient.exists
                   THEN IF html = "null" THEN Caught(st)
                        ELSE IF ok THEN [st EXCEPT !.transient = PatchInPlace(@, raw)]
                        ELSE IF nullPatch = "emptied"
                        THEN [st EXCEPT !.transient = PatchInPlace(@, <<>>)]
                        ELSE IF nullPatch = "kept" THEN st
                        ELSE Caught(st)
                   ELSE CreateTransient(st, IF ok THEN raw ELSE <<>>)
       IN  /\ AutoCommit(done, "settle", ok)
           /\ records' = records \o CompanionRecords(done)
    /\ UNCHANGED <<hasText, nodeValue, extraChild, auto, attached, observing,
                   characterDataAlreadyHandled, fragmentChangedCallbacks, replica,
                   unobservedWrite, last>>
    /\ UNCHANGED <<parentInDocument, classList>>
    /\ UNCHANGED <<regVars, hdlVars, edVars, dataType, scss>>

\* the load pass reaches the fragment: onFragmentsLoaded(), here before
\* anything else has happened to the fragment
AutoFragmentsLoaded ==
    /\ autoLast.op = "new"
    /\ AutoCommit(IF auto /\ ~disableAutorun THEN insertAutoDom(AutoCur, Raw) ELSE AutoCur,
                  "onFragmentsLoaded", TRUE)
    /\ UNCHANGED fragVars
    /\ UNCHANGED <<parentInDocument, classList>>
    /\ UNCHANGED <<regVars, hdlVars, edVars, dataType, scss>>

\* fragment.unload() while recomputations may be pending
AutoUnload ==
    /\ html = "node"
    /\ \E patches \in PatchesFor(records) :
         LET flush == IF Len(records) > 0 THEN mutationCallback(records, patches) ELSE NoResult
         IN  /\ characterDataAlreadyHandled' = flush.marker
             /\ AutoCommit(AfterBatch(clearAutoDom(AutoCur), flush, auto, Raw), "unload", TRUE)
    /\ records' = <<>>
    /\ observing' = disconnect(observing)
    /\ html' = "null"
    /\ UNCHANGED <<hasText, nodeValue, extraChild, auto, attached, fragmentChangedCallbacks,
                   replica, unobservedWrite, last>>
    /\ UNCHANGED <<parentInDocument, classList>>
    /\ UNCHANGED <<callbacks, disposers, called, subscribed>>
    /\ UNCHANGED <<regVars, edVars, dataType, scss>>

NextAutoDom ==
    \/ \E content \in AutoRaws : AutoEdit(content)
    \/ \E name \in {"auto", "class"} : AutoSetAttribute(name)
    \/ \E inDoc \in BOOLEAN : AutoReparent(inDoc)
    \/ AutoFragmentsLoaded
    \/ AutoUnload
    \/ AutoDeliver
    \/ \E content \in AutoRaws : AutoScopedWrite(content)
    \/ \E i \in 1..MaxPending, ok \in BOOLEAN, nullPatch \in {"none", "emptied", "kept", "threw"} :
          AutoSettle(i, ok, nullPatch)

SpecAutoDom == InitAutoDom /\ [][NextAutoDom]_vars

\* ------------------------------------------------------------------ claims
PureEdit(mutations) ==
    /\ mutations # <<>>
    /\ \A i \in 1..Len(mutations) : mutations[i].type = "characterData"

HasAutoRecord(mutations) ==
    \E i \in 1..Len(mutations) :
        mutations[i].type = "attributes" /\ mutations[i].attributeName = "auto"

Without(seq, i) == [k \in 1..(Len(seq) - 1) |-> IF k < i THEN seq[k] ELSE seq[k + 1]]

C17_AutoOffClears ==
    [][/\ (autoLast'.op = "mutationCallback" /\ HasAutoRecord(records)) =>
             /\ ~auto => (~transient'.exists /\ autoDomDirty')
             /\ (auto /\ autoDomDirty) => autoLast'.started >= 1
       /\ (~auto' /\ ~HasAutoRecord(records')) => autoDomDirty']_vars

C17_Witness ==
    /\ autoLast.op = "mutationCallback"
    /\ ~auto /\ autoDomDirty
    /\ ~transient.exists /\ transient.id = 2

\* C18: when the require() of a recomputation has rejected, the auto-DOM state
\* is dirty once the recomputation has settled.
C18_FailedRecomputationDirty ==
    [][(autoLast'.op = "settle" /\ ~autoLast'.ok) => autoDomDirty']_vars


\* ------------------------------------------- further claims on the load passes
\* C21: a load pass that has set currentlyLoadingFragments clears it when it
\* leaves, also when one of its hooks throws or rejects: the flag is set only
\* while some pass is between setting it and clearing it, awaiting a hook.
C21_FlagClearedOnExit ==
    currentlyLoadingFragments => InHook # {}

\* C22: a hook that registers a fragment type and awaits the returned promise
\* does not deadlock the guard: the pass it awaits is never one that waits for
\* the flag which the hook's own pass holds.
C22_NestedPassNoDeadlock ==
    \A p \in InHook :
        hookAwaits[p] # 0 => passes[hookAwaits[p]].pc # "waiting"

\* C23: when the document observer processes a batch in which a removed
\* code-fragment node has no wrapper, it does not throw: every added node of
\* the batch is set up (wrapped, or saved as unknown) and the load pass that
\* follows is run.
C23_RemovedWithoutWrapper ==
    [][(docRecords # <<>> /\ docRecords' = <<>>) =>
          /\ ~observerThrew'
          /\ \A i \in 1..Len(docRecords) :
                 docRecords[i].kind = "added" =>
                     \/ data'[docRecords[i].node] # 0
                     \/ \E t \in DOMAIN unknownFragments' :
                            docRecords[i].node \in unknownFragments'[t]]_vars


\* ------------------------------------- further claims on the auto-DOM
\* C24: when the last of several overlapping recomputations settles with a
\* resolved require() and leaves a companion in the document, the companion
\* holds the content computed from the raw that the most recently started
\* recomputation read: an earlier one that finishes later does not overwrite
\* the result of a later one.
C24_NewestResultWins ==
    [][(/\ autoLast'.op = "settle" /\ autoLast'.ok
        /\ Len(pendingAutoDom) = 1
        /\ transient'.exists) =>
          transient'.content = autoLast.newest]_vars

\* C25: when a recomputation settles while auto is off and the batch with the
\* auto record has been processed, the fragment has no companion afterwards.
C25_NoCompanionAfterAutoOff ==
    [][(/\ autoLast'.op = "settle"
        /\ html = "node"
        /\ ~auto /\ ~HasAutoRecord(records)) =>
          /\ ~transient'.exists
          /\ strayCompanions' = strayCompanions]_vars

\* C26: when a recomputation settles after the fragment was unloaded, its
\* result is ignored: no companion is inserted and the promise of the
\* recomputation is not rejected.
C26_SettleAfterUnloadIgnored ==
    [][(autoLast'.op = "settle" /\ html = "null") =>
          /\ ~transient'.exists
          /\ strayCompanions' = strayCompanions
          /\ ~autoLast'.rejected]_vars

\* the number of transient.autoDom elements that carry the id of the fragment
Companions == (IF transient.exists THEN 1 ELSE 0) + strayCompanions

\* C27: there is at most one companion per fragment, whether or not the root
\* is in the document.
C27_AtMostOneCompanion ==
    Companions <= 1

\* C28: a recomputation that creates a companion inserts it under the parent
\* of the root, after the root, with the id and the classes of the root; a
\* companion in the document is never under the root; settling a
\* recomputation queues no record on the observer of the root and starts no
\* recomputation.
C28_CompanionIsSibling ==
    [][autoLast'.op = "settle" =>
          /\ autoLast'.created.made =>
                /\ autoLast'.created.under = "parent"
                /\ autoLast'.created.id = "uuid"
                /\ autoLast'.created.classes = classList
                /\ attached
          /\ transient'.exists => transient'.under = "parent"
          /\ records' = records
          /\ autoLast'.started = 0
          /\ Len(pendingAutoDom') = Len(pendingAutoDom) - 1]_vars

C28_Witness ==
    /\ autoLast.op = "settle"
    /\ autoLast.created.made /\ autoLast.created.classes = {"c"}
    /\ transient.exists /\ transient.content = <<"a", "b">>
    /\ observing /\ html = "node"
    /\ records = <<>> /\ pendingAutoDom = <<>>


\* ================================= getTextContentNode of the subclasses
\* one fragment of class HtmlFragment or DescriptorFragment; for the
\* descriptor, extraChild says that the wpm-descriptor element exists and
\* hasText / nodeValue are those of that element
FragmentTypesWithTextNode == {"text/html", "wpm/descriptor"}

\* the serialisation of the child element in html[0].innerHTML
ChildHtml == <<"<">>

\* the JSON text a new wpm-descriptor element gets
DescriptorText == <<"a">>

InitTextNode ==
    /\ dataType \in FragmentTypesWithTextNode
    /\ scss = <<>>
    /\ hasText \in (IF dataType = "text/html" THEN BOOLEAN ELSE {FALSE})
    /\ nodeValue \in (IF hasText THEN RawContents ELSE {<<>>})
    /\ extraChild = FALSE
    /\ auto = FALSE
    /\ attached \in BOOLEAN
    /\ observing = TRUE
    /\ records = <<>>
    /\ characterDataAlreadyHandled = FALSE
    /\ fragmentChangedCallbacks = <<"h1">>
    /\ replica = <<>>
    /\ unobservedWrite = TRUE
    /\ last = Quiet
    /\ RegIdle
    /\ HdlIdle
    /\ EdIdle
    /\ AutoIdle

\* the records the observer queues for the writes of the conversion
ConversionRecords(obs) ==
    IF ~obs THEN <<>>
    ELSE <<Rec("childList", "", "root", <<>>, FALSE),
           Rec("childList", "", "root", <<>>, FALSE),
           Rec("characterData", "", "text", <<>>, FALSE)>>

\* HtmlFragment.getTextContentNode() when the root has more than one child:
\* the children are replaced by one new text node that holds innerHTML
HtmlGetTextContentNode ==
    /\ dataType = "text/html"
    /\ extraChild
    /\ CharIdx(records) = {}
    /\ Len(Raw \o ChildHtml) <= MaxLen
    /\ nodeValue' = Raw \o ChildHtml
    /\ hasText' = TRUE
    /\ extraChild' = FALSE
    /\ records' = records \o ConversionRecords(observing)
    /\ characterDataAlreadyHandled' = FALSE
    /\ last' = Last("getTextContentNode", NoResult, <<>>, FALSE, FALSE, "none")
    /\ UNCHANGED <<auto, attached, observing, fragmentChangedCallbacks, replica,
                   unobservedWrite>>
    /\ UNCHANGED regVars
    /\ UNCHANGED extVars

\* DescriptorFragment.getTextContentNode() when the wpm-descriptor element is
\* missing: executeObserverless(create and fill it, null, true)
DescriptorGetTextContentNode ==
    /\ dataType = "wpm/descriptor"
    /\ ~extraChild
    /\ \E patches \in PatchesFor(records) :
         LET flush == IF Len(records) > 0 THEN mutationCallback(records, patches) ELSE NoResult
         IN  /\ characterDataAlreadyHandled' = flush.marker
             /\ replica' = Replay(flush.ops, unobservedWrite)
             /\ last' = Last("getTextContentNode", flush, triggerFragmentChanged("null"),
                             FALSE, TRUE, "null")
    /\ records' = IF disconnect(observing)
                  THEN <<Rec("childList", "", "root", <<>>, TRUE)>> ELSE <<>>
    /\ observing' = observe(disconnect(observing))
    /\ extraChild' = TRUE
    /\ hasText' = TRUE
    /\ nodeValue' = DescriptorText
    /\ UNCHANGED <<auto, attached, fragmentChangedCallbacks, unobservedWrite>>
    /\ UNCHANGED regVars
    /\ UNCHANGED extVars

\* the wpm-descriptor element is removed from the root by an edit
RemoveDescriptor ==
    /\ dataType = "wpm/descriptor"
    /\ extraChild
    /\ CharIdx(records) = {}
    /\ Len(records) < MaxRecords
    /\ extraChild' = FALSE
    /\ hasText' = FALSE
    /\ nodeValue' = <<>>
    /\ records' = IF observing THEN Append(records, Rec("childList", "", "root", <<>>, FALSE))
                  ELSE records
    /\ last' = Quiet
    /\ UNCHANGED <<auto, attached, observing, characterDataAlreadyHandled,
                   fragmentChangedCallbacks, replica, unobservedWrite>>
    /\ UNCHANGED regVars
    /\ UNCHANGED extVars

\* the accessors find the text content node as it is: no conversion is due
TextNodeReady == IF dataType = "text/html" THEN ~extraChild ELSE extraChild

NextTextNode ==
    \/ \E c \in RawContents : TextNodeReady /\ SetRaw(c)
    \/ dataType = "text/html" /\ ToggleExtraChild
    \/ HtmlGetTextContentNode
    \/ DescriptorGetTextContentNode
    \/ RemoveDescriptor
    \/ DeliverRecords

SpecTextNode == InitTextNode /\ [][NextTextNode]_vars

\* C29: a write that getTextContentNode makes to the subtree of the root is
\* made while the observer is disconnected: it queues no record on the
\* observer, and it is followed by one changed notification with the context
\* given to executeObserverless.
C29_CoreWritesObserverPaused ==
    [][last'.op = "getTextContentNode" =>
          /\ Len(records') <= Len(records)
          /\ last'.scopedChanged = triggerFragmentChanged(last'.ctx)
          /\ last'.scopedChanged # <<>>]_vars


\* ============================ mutationCallback with handlers that throw
InitMarker ==
    /\ hasText = TRUE
    /\ nodeValue \in RawContents
    /\ extraChild = FALSE
    /\ auto = FALSE
    /\ attached \in BOOLEAN
    /\ observing = TRUE
    /\ records = <<>>
    /\ characterDataAlreadyHandled = FALSE
    /\ fragmentChangedCallbacks = <<"h1">>
    /\ replica = <<>>
    /\ unobservedWrite = TRUE
    /\ last = Quiet
    /\ RegIdle
    /\ ExtIdle

\* the MutationObserver delivers its queue and the first text-inserted or
\* text-deleted handler that insertDeleteCallback calls throws: the exception
\* leaves mutations.forEach and mutationCallback
DeliverRecordsThrowing ==
    /\ records # <<>>
    /\ CharIdx(records) # {}
    /\ ~characterDataAlreadyHandled
    /\ \E patches \in PatchesFor(records) :
         /\ WalkPatches(patches) # <<>>
         /\ LET o == WalkPatches(patches)[1] IN
            last' = Last("mutationCallback",
                         [ops |-> <<[kind |-> o.kind, pos |-> o.pos, val |-> o.val,
                                     scoped |-> records[FirstChar(records)].scoped]>>,
                          changed |-> <<>>],
                         <<>>, TRUE, FALSE, "none")
    /\ characterDataAlreadyHandled' = TRUE
    /\ records' = <<>>
    /\ UNCHANGED <<hasText, nodeValue, extraChild, auto, attached, observing,
                   fragmentChangedCallbacks, replica, unobservedWrite>>
    /\ UNCHANGED regVars
    /\ UNCHANGED extVars

NextMarker ==
    \/ \E c \in RawContents : SetRaw(c)
    \/ DeliverRecords
    \/ DeliverRecordsThrowing

SpecMarker == InitMarker /\ [][NextMarker]_vars

\* C30: when mutationCallback has finished with a batch, also when a text
\* handler threw, the text node does not keep its marker; and a batch whose
\* first characterData record has an old value other than the value of the
\* text node is diffed and delivered when no handler throws.
C30_MarkerResetAtBatchEnd ==
    [][last'.op = "mutationCallback" =>
          /\ ~characterDataAlreadyHandled'
          /\ (/\ ~last'.threw
              /\ CharIdx(records) # {}
              /\ records[FirstChar(records)].oldValue # nodeValue) =>
                last'.ops # <<>>]_vars


InitUnload ==
    /\ hasText = TRUE
    /\ nodeValue \in RawContents
    /\ extraChild = FALSE
    /\ auto = FALSE
    /\ attached = TRUE
    /\ observing = TRUE
    /\ records = <<>>
    /\ characterDataAlreadyHandled = FALSE
    /\ fragmentChangedCallbacks = <<"h1">>
    /\ replica = <<>>
    /\ unobservedWrite = TRUE
    /\ last = Quiet
    /\ RegIdle
    /\ ExtIdle

\* fragment.unload(): the unloaded callbacks have been invoked when
\* stopObserver() hands the queue to mutationCallback; last holds what
\* mutationCallback delivers then
FragmentUnload ==
    /\ html = "node"
    /\ \E patches \in PatchesFor(records) :
         LET flush == IF Len(records) > 0 THEN mutationCallback(records, patches) ELSE NoResult
         IN  /\ characterDataAlreadyHandled' = flush.marker
             /\ replica' = Replay(flush.ops, unobservedWrite)
             /\ last' = Last("unload", flush, <<>>, FALSE, FALSE, "none")
    /\ records' = <<>>
    /\ observing' = disconnect(observing)
    /\ html' = "null"
    /\ UNCHANGED <<hasText, nodeValue, extraChild, auto, attached, fragmentChangedCallbacks,
                   unobservedWrite>>
    /\ UNCHANGED <<callbacks, disposers, called, subscribed>>
    /\ UNCHANGED <<regVars, edVars, autoVars, dataType, scss>>

NextUnload ==
    \/ \E c \in RawContents : html = "node" /\ SetRaw(c)
    \/ html = "node" /\ ToggleAttached
    \/ html = "node" /\ DeliverRecords
    \/ FragmentUnload

SpecUnload == InitUnload /\ [][NextUnload]_vars

\* C32: unload() delivers no text-inserted, text-deleted or changed callback
\* after it has invoked the unload callbacks: the records that are queued
\* when unload() is called are not delivered to the subscribers.
C32_NothingAfterUnloaded ==
    [][last'.op = "unload" =>
          /\ last'.ops = <<>>
          /\ last'.changed = <<>>]_vars


Before(ops, i, old) == ApplyOps(SubSeq(ops, 1, i - 1), old)

\* the characters of s that start at offset pos, as many as val has
At(s, pos, val) == Take(Drop(s, pos), Len(val))

SingleCharacterData(mutations) ==
    /\ Len(mutations) = 1
    /\ mutations[1].type = "characterData"
    /\ ~characterDataAlreadyHandled

\* C34 as stated: in the callbacks for one characterData record every delete
\* offset is the position of the deleted text in the old value, and every
\* insert offset is the position of the inserted text in the string as
\* updated so far.
C34_DeleteOffsetsInOldValue ==
    [][(last'.op = "mutationCallback" /\ SingleCharacterData(records)) =>
          \A i \in 1..Len(last'.ops) :
              LET o == last'.ops[i] IN
              IF o.kind = "delete"
              THEN At(records[1].oldValue, o.pos, o.val) = o.val
              ELSE At(Before(last'.ops, i + 1, records[1].oldValue), o.pos, o.val) = o.val]_vars

\* C34 amended: every offset, of a delete as of an insert, is a position in
\* the string as updated by the callbacks before it: a delete finds its text
\* at its offset in that string, an insert puts its text at its offset, and
\* offsets never decrease along the stream.
C34_OffsetsInUpdatedString ==
    [][(last'.op = "mutationCallback" /\ SingleCharacterData(records)) =>
          /\ \A i \in 1..Len(last'.ops) :
                 LET o == last'.ops[i] IN
                 /\ o.pos <= Len(Before(last'.ops, i, records[1].oldValue))
                 /\ IF o.kind = "delete"
                    THEN At(Before(last'.ops, i, records[1].oldValue), o.pos, o.val) = o.val
                    ELSE At(Before(last'.ops, i + 1, records[1].oldValue), o.pos, o.val) = o.val
          /\ \A i, j \in 1..Len(last'.ops) :
                 i < j => last'.ops[i].pos <= last'.ops[j].pos]_vars

C34_Witness ==
    /\ last.op = "mutationCallback"
    /\ Len(last.ops) = 2
    /\ last.ops[1].kind = "insert" /\ last.ops[1].pos = 0
    /\ last.ops[2].kind = "delete" /\ last.ops[2].pos = Len(nodeValue)
    /\ records = <<>>


\* ------------------------------------------- further claims on the auto-DOM
\* C35: the assignment of fragment.auto runs onAutoChanged before it returns:
\* for a fragment that supports auto-DOM, when the assignment has returned
\* with auto off the companion is removed and the state is dirty, and when
\* it has returned with auto on and the state was dirty a recomputation has
\* been started.
C35_AutoAssignmentSynchronous ==
    [][(autoLast'.op = "attribute" /\ auto' # auto) =>
          IF auto'
          THEN autoDomDirty => autoLast'.started = 1
          ELSE ~transient'.exists /\ autoDomDirty']_vars


\* ------------------------------------------- further claims on the callbacks
\* C36: a changed notification invokes every changed handler that is
\* registered and not disposed of, in registration order, also when some of
\* the handlers throw.
C36_ChangedInRegistrationOrder ==
    [][(called'.op = "notify" /\ called'.kind = "changed") =>
          /\ called'.invoked = subscribed["changed"]
          /\ ~called'.threw]_vars

\* the nodes that are members of an unknown set
UnknownNodes(unknown) == UNION {unknown[t] : t \in DOMAIN unknown}

\* C37: no node is both wrapped by a Fragment and a member of an unknown set;
\* while a type is registered (so once registerFragmentType(T) has returned)
\* its unknown set is empty; and no node recorded as unknown leaves the unknown
\* sets without being wrapped.
C37_UnknownSetsFlushed ==
    [][/\ \A n \in UnknownNodes(unknownFragments') : data'[n] = 0
       /\ \A t \in fragmentTypes' \cap DOMAIN unknownFragments' :
             unknownFragments'[t] = {}
       /\ \A n \in UnknownNodes(unknownFragments) \ UnknownNodes(unknownFragments') :
             data'[n] # 0]_vars

C37_Witness ==
    \E n \in Nodes :
        /\ NodeType(n) \in fragmentTypes \cap DOMAIN unknownFragments
        /\ unknownFragments[NodeType(n)] = {}
        /\ data[n] # 0
        /\ ~fragments[data[n]].unloaded
        /\ data[n] \in settledPromotion


\* ============================================ the boundEditors of one fragment
\* the boundEditors created on one fragment, each subscribed to its changed,
\* text-inserted and text-deleted callbacks; the observer delivers its records
\* before the next task runs, timers and user input are tasks in any order
\* ------------------------------------------------------------------ bounds
NumEditors == 2
MaxTimers == 3
MaxRemoteWrites == 1
MaxEditLen == 1

\* the texts the fragment and the editors are given
EditorContents == Strings(MaxEditLen)

EditorIds == 1..NumEditors

\* new Editor(type, fragment): handleModelChanges = true, the value of the fragment
NewEditor(value) ==
    [value |-> value, handleModelChanges |-> TRUE, timers |-> 0,
     calls |-> <<>>, notified |-> FALSE]

\* the history fields of an editor at the start of a step
Fresh(ed) == [ed EXCEPT !.calls = <<>>, !.notified = FALSE]

\* handleTextInserted(pos, val) / handleTextDeleted(pos, val)
handleTextOp(ed, o) ==
    [ed EXCEPT !.handleModelChanges = FALSE,
               !.value = ApplyOps(<<o>>, @),
               !.calls = Append(@, IF o.kind = "insert" THEN "insertText" ELSE "deleteText"),
               !.timers = @ + 1]

RECURSIVE handleTextOps(_, _)
handleTextOps(ed, ops) ==
    IF ops = <<>> THEN ed ELSE handleTextOps(handleTextOp(ed, Head(ops)), Tail(ops))

handleFragmentChanged(ed, raw) ==
    [ed EXCEPT !.handleModelChanges = FALSE,
               !.value = raw,
               !.calls = IF ed.value # raw THEN Append(@, "setValue") ELSE @,
               !.timers = @ + 1,
               !.notified = TRUE]

IgnoresOwn_Never(context, self) == FALSE

\* if(context === self) return;
IgnoresOwn(context, self) == context = self

\* the changed handler an editor registers in its constructor
changedCallback(ed, self, context, raw) ==
    IF IgnoresOwn(context, self) THEN ed ELSE handleFragmentChanged(ed, raw)

\* the context mutationCallback passes to the changed handlers: not an editor
NoEditor == 0

NoEdit == [op |-> "none", editor |-> NoEditor, wrote |-> FALSE]

InitEditorSync ==
    /\ hasText \in BOOLEAN
    /\ nodeValue \in (IF hasText THEN EditorContents ELSE {<<>>})
    /\ extraChild = FALSE
    /\ auto = FALSE
    /\ attached = TRUE
    /\ observing = TRUE
    /\ records = <<>>
    /\ characterDataAlreadyHandled = FALSE
    /\ fragmentChangedCallbacks = [e \in EditorIds |-> e]
    /\ replica = Raw
    /\ unobservedWrite = FALSE
    /\ last = Quiet
    /\ editorTypes = <<>>
    /\ lastCreate = <<>>
    /\ boundEditors = [e \in EditorIds |-> NewEditor(Raw)]
    /\ lastEdit = NoEdit
    /\ RegIdle
    /\ HdlIdle
    /\ AutoIdle
    /\ TypeIdle

\* a remote client changes the text: fragment.raw = content in the shared DOM
RemoteWrite(content) ==
    /\ Len(records) < MaxRemoteWrites
    /\ records' = records \o SetterRecords(observing, content, FALSE)
    /\ hasText' = SetterHasText(content)
    /\ nodeValue' = content
    /\ last' = Quiet
    /\ boundEditors' = [e \in EditorIds |-> Fresh(boundEditors[e])]
    /\ lastEdit' = [op |-> "remote", editor |-> NoEditor, wrote |-> FALSE]
    /\ UNCHANGED <<extraChild, auto, attached, observing, characterDataAlreadyHandled,
                   fragmentChangedCallbacks, replica, unobservedWrite>>
    /\ UNCHANGED <<editorTypes, lastCreate>>
    /\ UNCHANGED <<regVars, hdlVars, autoVars, dataType, scss>>

\* the observer of the fragment delivers its queue; every editor handles the
\* text callbacks of the walk and then the changed notification
EditorsDeliver ==
    /\ records # <<>>
    /\ \E patches \in PatchesFor(records) :
         LET res == mutationCallback(records, patches)
             after == [e \in EditorIds |->
                         LET ed == handleTextOps(Fresh(boundEditors[e]), res.ops) IN
                         IF \E i \in 1..Len(res.changed) : res.changed[i].handler = e
                         THEN changedCallback(ed, e, NoEditor, Raw)
                         ELSE ed]
         IN  /\ \A e \in EditorIds : after[e].timers <= MaxTimers
             /\ characterDataAlreadyHandled' = res.marker
             /\ replica' = Replay(res.ops, unobservedWrite)
             /\ last' = Last("mutationCallback", res, <<>>, FALSE, FALSE, "none")
             /\ boundEditors' = after
    /\ records' = <<>>
    /\ lastEdit' = [op |-> "deliver", editor |-> NoEditor, wrote |-> FALSE]
    /\ UNCHANGED <<hasText, nodeValue, extraChild, auto, attached, observing,
                   fragmentChangedCallbacks, unobservedWrite>>
    /\ UNCHANGED <<editorTypes, lastCreate>>
    /\ UNCHANGED <<regVars, hdlVars, autoVars, dataType, scss>>

\* the user changes the text of editor self to value; the change event of the
\* editor calls handleModelChanged()
LocalEdit(self, value) ==
    /\ records = <<>>
    /\ value # boundEditors[self].value
    /\ LET typed == [e \in EditorIds |->
                        IF e = self THEN [Fresh(boundEditors[e]) EXCEPT !.value = value]
                        ELSE Fresh(boundEditors[e])]
           writes == boundEditors[self].handleModelChanges /\ value # Raw
           obs1 == disconnect(observing)
           after == [e \in EditorIds |->
                        IF \E i \in 1..Len(fragmentChangedCallbacks) :
                               fragmentChangedCallbacks[i] = e
                        THEN changedCallback(typed[e], e, self, value)
                        ELSE typed[e]]
       IN  IF writes
           THEN /\ \A e \in EditorIds : after[e].timers <= MaxTimers
                /\ records' = SetterRecords(obs1, value, TRUE)
                /\ hasText' = SetterHasText(value)
                /\ nodeValue' = value
                /\ observing' = observe(obs1)
                /\ unobservedWrite' = TRUE
                /\ replica' = Replay(<<>>, TRUE)
                /\ last' = Last("executeObserverless", NoResult,
                                triggerFragmentChanged(self), FALSE, FALSE, "editor")
                /\ boundEditors' = after
                /\ lastEdit' = [op |-> "edit", editor |-> self, wrote |-> TRUE]
                /\ UNCHANGED <<extraChild, auto, attached, characterDataAlreadyHandled,
                               fragmentChangedCallbacks>>
           ELSE /\ boundEditors' = typed
                /\ lastEdit' = [op |-> "edit", editor |-> self, wrote |-> FALSE]
                /\ last' = Quiet
                /\ UNCHANGED <<hasText, nodeValue, extraChild, auto, attached, observing,
                               records, characterDataAlreadyHandled,
                               fragmentChangedCallbacks, replica, unobservedWrite>>
    /\ UNCHANGED <<editorTypes, lastCreate>>
    /\ UNCHANGED <<regVars, hdlVars, autoVars, dataType, scss>>

\* setTimeout(() => { self.handleModelChanges = true; }, 0) fires
TimerFires(self) ==
    /\ boundEditors[self].timers > 0
    /\ boundEditors' = [e \in EditorIds |->
                      IF e = self
                      THEN [Fresh(boundEditors[e]) EXCEPT !.timers = @ - 1,
                                                     !.handleModelChanges = TRUE]
                      ELSE Fresh(boundEditors[e])]
    /\ lastEdit' = [op |-> "timer", editor |-> self, wrote |-> FALSE]
    /\ last' = Quiet
    /\ UNCHANGED <<hasText, nodeValue, extraChild, auto, attached, observing, records,
                   characterDataAlreadyHandled, fragmentChangedCallbacks, replica,
                   unobservedWrite>>
    /\ UNCHANGED <<editorTypes, lastCreate>>
    /\ UNCHANGED <<regVars, hdlVars, autoVars, dataType, scss>>

NextEditorSync ==
    \/ \E content \in EditorContents : RemoteWrite(content)
    \/ EditorsDeliver
    \/ \E self \in EditorIds, value \in EditorContents : LocalEdit(self, value)
    \/ \E self \in EditorIds : TimerFires(self)

SpecEditorSync == InitEditorSync /\ [][NextEditorSync]_vars

\* C38: whenever no mutation record is pending and no re-enable timer is
\* outstanding, every editor bound to the fragment holds exactly fragment.raw
\* (so an edit made while handleModelChanges is false is not lost).
C38_EditorsConverge ==
    (records = <<>> /\ \A e \in EditorIds : boundEditors[e].timers = 0) =>
        \A e \in EditorIds : boundEditors[e].value = Raw

\* C39: when handleModelChanged of an editor writes its value to the fragment,
\* the changed notification carries that editor as context and the editor
\* ignores it: setValue, insertText and deleteText are not called on it, its
\* handleModelChanges and timers are untouched, and every other editor bound
\* to the fragment is notified.
C39_OwnWriteIgnored ==
    [][(lastEdit'.op = "edit" /\ lastEdit'.wrote) =>
          LET self == lastEdit'.editor IN
          /\ last'.scopedChanged = [i \in 1..Len(fragmentChangedCallbacks) |->
                                      [handler |-> fragmentChangedCallbacks[i],
                                       context |-> self]]
          /\ boundEditors'[self].calls = <<>>
          /\ ~boundEditors'[self].notified
          /\ boundEditors'[self].handleModelChanges
          /\ boundEditors'[self].timers = boundEditors[self].timers
          /\ \A e \in EditorIds \ {self} : boundEditors'[e].notified]_vars

C39_Witness ==
    /\ lastEdit.op = "edit"
    /\ lastEdit.wrote
    /\ boundEditors[lastEdit.editor].calls = <<>>
    /\ boundEditors[lastEdit.editor].value = Raw
    /\ \E e \in EditorIds \ {lastEdit.editor} :
          /\ boundEditors[e].calls = <<"setValue">>
          /\ boundEditors[e].value = Raw


\* ======================================================= SCSSFragment.require
\* one SCSS fragment with auto-DOM, the Sass compiler it loads on demand, the
\* AutoDOMCache plugin when it is installed, and the promises of require()
\* ------------------------------------------------------------------ bounds
MaxRequests == 2

\* the value a compilation of raw produces
Css(raw) == <<"css">> \o raw

\* AutoDOMCache.get(fragment): an async function, so the caller is handed a
\* promise; the promise resolves to the stored CSS, or to null on a miss
AutoDOMCache_get(s) ==
    [kind |-> "promise",
     resolves |-> IF s.raw \in s.store THEN Css(s.raw) ELSE <<"null">>]

\* cache !== null
NotNull(cache) == cache.kind # "null"

\* the stage at which the executor of require() leaves the promise
StartStage(s) ==
    IF s.installed /\ NotNull(AutoDOMCache_get(s)) THEN "returned"
    ELSE IF ~s.compiler THEN "requirejs"
    ELSE IF ~s.sassCompiler THEN "fetchSassWorkerBlob"
    ELSE "compile"

\* require(): the promise it returns
require(s) ==
    [stage |-> StartStage(s), state |-> "pending", style |-> <<>>,
     src |-> IF StartStage(s) = "compile" THEN s.raw ELSE <<>>,
     hit |-> s.installed /\ s.raw \in s.store]

\* the stages in which a callback that settles the promise is still to come
Outstanding == {"requirejs", "fetchSassWorkerBlob", "compile"}

InitScss ==
    /\ scss \in [installed : BOOLEAN, store : SUBSET RawContents, raw : RawContents,
                  compiler : {FALSE}, sassCompiler : {FALSE}, requests : {<<>>},
                  awaiting : {0}, currentlyLoadingFragments : {FALSE},
                  isLoaded : {FALSE}]
    /\ dataType = "none"
    /\ FragIdle
    /\ RegIdle
    /\ HdlIdle
    /\ EdIdle
    /\ AutoIdle

ScssIdleRest == UNCHANGED <<fragVars, regVars, hdlVars, edVars, autoVars, dataType>>

\* the text of the fragment is edited
ScssSetRaw(content) ==
    /\ content # scss.raw
    /\ scss' = [scss EXCEPT !.raw = content]
    /\ ScssIdleRest

\* the AutoDOMCache plugin is loaded after the fragments
InstallCache ==
    /\ ~scss.installed
    /\ scss' = [scss EXCEPT !.installed = TRUE]
    /\ ScssIdleRest

\* a script calls fragment.require()
Require ==
    /\ Len(scss.requests) < MaxRequests
    /\ scss' = [scss EXCEPT !.requests = Append(@, require(scss))]
    /\ ScssIdleRest

\* a load pass reaches the fragment: onFragmentsLoaded awaits insertAutoDom(),
\* which awaits createAutoDom(), which awaits require()
ScssFragmentsLoaded ==
    /\ Len(scss.requests) < MaxRequests
    /\ ~scss.currentlyLoadingFragments
    /\ scss' = [scss EXCEPT !.requests = Append(@, require(scss)),
                            !.awaiting = Len(scss.requests) + 1,
                            !.currentlyLoadingFragments = TRUE]
    /\ ScssIdleRest

\* requirejs(["sass/sass"]) calls back
SassLoaded(r) ==
    /\ r <= Len(scss.requests)
    /\ scss.requests[r].stage = "requirejs"
    /\ scss' = [scss EXCEPT !.compiler = TRUE,
                            !.requests[r].stage =
                                IF scss.sassCompiler THEN "compile" ELSE "fetchSassWorkerBlob",
                            !.requests[r].src = IF scss.sassCompiler THEN scss.raw ELSE <<>>]
    /\ ScssIdleRest

\* fetchSassWorkerBlob() resolves
WorkerReady(r) ==
    /\ r <= Len(scss.requests)
    /\ scss.requests[r].stage = "fetchSassWorkerBlob"
    /\ scss' = [scss EXCEPT !.sassCompiler = TRUE,
                            !.requests[r].stage = "compile",
                            !.requests[r].src = scss.raw]
    /\ ScssIdleRest

\* sassCompiler.compile(raw, callback) calls back with status 0 (ok) or not
CompileDone(r, ok) ==
    /\ r <= Len(scss.requests)
    /\ scss.requests[r].stage = "compile"
    /\ scss' = [scss EXCEPT
                  !.requests[r].stage = "settled",
                  !.requests[r].state = IF ok THEN "resolved" ELSE "rejected",
                  !.requests[r].style = IF ok THEN Css(scss.requests[r].src) ELSE <<>>,
                  !.store = IF ok /\ scss.installed THEN @ \cup {scss.raw} ELSE @]
    /\ ScssIdleRest

\* the promise the load pass awaits has settled: the pass completes
ScssPassCompletes ==
    /\ scss.awaiting # 0
    /\ scss.requests[scss.awaiting].state # "pending"
    /\ scss' = [scss EXCEPT !.awaiting = 0, !.currentlyLoadingFragments = FALSE,
                            !.isLoaded = TRUE]
    /\ ScssIdleRest

NextScss ==
    \/ \E content \in RawContents : ScssSetRaw(content)
    \/ InstallCache
    \/ Require
    \/ ScssFragmentsLoaded
    \/ \E r \in 1..MaxRequests : SassLoaded(r)
    \/ \E r \in 1..MaxRequests : WorkerReady(r)
    \/ \E r \in 1..MaxRequests, ok \in BOOLEAN : CompileDone(r, ok)
    \/ ScssPassCompletes

SpecScss == InitScss /\ [][NextScss]_vars

\* C40: require() always settles: a promise of require() that is pending has a
\* callback outstanding that settles it (the compiler loading, the worker
\* loading or the compilation), a promise made on a cache hit is resolved with
\* a style element holding the cached CSS, and so a load pass that awaits the
\* promise can complete.
C40_RequireSettles ==
    \A r \in 1..Len(scss.requests) :
        LET q == scss.requests[r] IN
        /\ q.state = "pending" => q.stage \in Outstanding
        /\ q.hit => q.state = "resolved" /\ q.style = Css(scss.raw)
====
